---------------------------- MODULE Spec2Model ----------------------------
(***************************************************************************)
(* Model of the batch screening engine of the stock-screening bot          *)
(* (api/cron-scan.py): the persisted scan progress (keys scan_offset,      *)
(* scan_results, last_scan_complete), the per-symbol check                 *)
(* check_stock_quick and one invocation of run_batch_scan.                 *)
(*                                                                         *)
(* Conventions.                                                            *)
(*  - Offsets are 0-based as in the Python code; the universe is a TLA+    *)
(*    sequence, so all_stocks[offset] of the code is all_stocks[offset+1]. *)
(*  - A Python value that may be None is a sequence of length 0 (None) or  *)
(*    1 (the value).                                                       *)
(*  - Wall-clock time is counted in whole hours (now); one invocation      *)
(*    lasts seconds, so it does not advance now.  The 9 second budget of   *)
(*    one invocation is the number of times the loop condition             *)
(*    time.time() - start_time < MAX_DURATION evaluates to true (budget).  *)
(*  - A scan result carries the symbol and, as a history tag that the      *)
(*    program does not store, the number of the pass that produced it.     *)
(***************************************************************************)
EXTENDS Integers, Sequences, FiniteSets, TLC

\* ------------------------------------------------------------------ bounds
\* Number of symbols of the universe returned by get_all_stocks.
MaxStocks == 3
\* Largest value of the wall clock, in hours.
MaxTime == 4
\* Largest number of symbols the 9 second budget lets one invocation start.
MaxBudget == 3

\* ------------------------------------------------------- program constants
\* "if hours_diff < 4" (cron-scan.py line 236).
CooldownHours == 4

\* ---------------------------------------------------------------- helpers
None == <<>>
Some(v) == <<v>>

\* Python "x or d" on an optional integer: None and 0 are falsy.
OrInt(x, d) == IF x = None THEN d ELSE IF x[1] = 0 THEN d ELSE x[1]
\* Python "x or d" on an optional list: None and [] are falsy.
OrList(x, d) == IF x = None THEN d ELSE IF x[1] = <<>> THEN d ELSE x[1]

IsPrefix(s, t) == Len(s) <= Len(t) /\ SubSeq(t, 1, Len(s)) = s

\* ---------------------------------------------------------------- universe
\* The symbols get_all_stocks can return, in order; the empty string is a
\* blank entry of the list, which the loop skips ("if symbol:").
SymbolPool == <<"RELIANCE", "TCS", "", "INFY", "HDFCBANK", "ICICIBANK">>

\* The list of get_all_nse_stocks when it loads in full (lines 120-123).
FullList == SubSeq(SymbolPool, 1, MaxStocks)

\* The list of get_nse_stock_list when it loads (lines 129-130): fewer symbols,
\* in an order of its own.
MidList == <<"TCS", "INFY">>

\* The hard-coded universe of get_all_stocks (lines 135-141).
HardCodedStocks ==
    <<"RELIANCE", "TCS", "INFY", "HDFCBANK", "ICICIBANK", "BHARTIARTL",
      "ITC", "SBIN", "LT", "AXISBANK", "MARUTI", "TITAN", "SUNPHARMA",
      "BAJFINANCE", "KOTAKBANK", "WIPRO", "HCLTECH", "TATAMOTORS", "M&M",
      "ADANIENT", "ASIANPAINT", "BAJAJFINSV", "ULTRACEMCO", "NESTLEIND",
      "TATASTEEL", "POWERGRID", "TECHM", "JSWSTEEL", "NTPC", "ONGC">>

RealSymbols == {FullList[i] : i \in 1..Len(FullList)} \ {""}

\* What the price-history provider and the nine criteria give for a symbol:
\*   "raise"  yfinance raises (network error, unknown ticker)
\*   "short"  the history is empty or has fewer than 200 bars
\*   "low"    at least 200 bars, score below 9
\*   "score9" at least 200 bars, score 9
Responses == {"raise", "short", "low", "score9"}

Keys == {"scan_offset", "scan_results", "last_scan_complete"}

VARIABLES
    kv,          \* the Redis store: key -> None or Some(value)
    redis_up,    \* REDIS_URL is set and the server answers
    yf,          \* the yfinance import succeeded
    provider,    \* symbol -> response of the price-history provider
    now,         \* wall clock, hours
    pass,        \* history: number of passes completed so far
    ret,         \* the dict returned by the last run_batch_scan
    obs,         \* history: locals of the last run_batch_scan
    sent,        \* messages handed to send_telegram by the last invocation
    completed,   \* history: the last invocation that scanned ended a pass
    lp,          \* the while loop of one invocation, step by step
    hist,        \* the price history handed to a calculator
    calc,        \* what the last calculator run gave for hist
    http,        \* the last trigger request and its HTTP response
    seen,        \* history: universe indices evaluated since the pass began
    tg,          \* Telegram: the recipients, how each answers, deliveries
    ep,          \* the last request to the scan endpoint and its response
    tier,        \* what each source of the stock universe gives
    inv,         \* run_batch_scan invocations in flight, each with its locals
    cmd,         \* the last /scanall command of the webhook and its reply
    srv,         \* the long-running server: scan_state and its scan threads
    files        \* the results file of the polling bot and the last load

vars == <<kv, redis_up, yf, provider, now, pass, ret, obs, sent, completed,
          lp, hist, calc, http, seen, tg, ep, tier, inv, cmd, srv, files>>

\* The variables of the parts added to the scan orchestrator.
aux == <<seen, tg, ep, tier, inv, cmd, srv, files>>

\* The values of lp, hist, calc and http while the part of the program they
\* belong to is not running.
LpIdle == [pc |-> "idle"]
NoCalc == [cron |-> [kind |-> "not_run", criteria |-> <<>>, score |-> 0],
           scan |-> [kind |-> "not_run", criteria |-> <<>>, score |-> 0],
           check |-> [kind |-> "not_run", criteria |-> <<>>, score |-> 0]]
NoHttp == [phase |-> "idle", code |-> 0, body |-> FALSE,
           manual_offset |-> <<>>, reset |-> FALSE, requests |-> 0]

NoTg == [chat_ids |-> <<>>, answer |-> <<>>, posts |-> <<>>,
         returned |-> "none"]
NoEp == [phase |-> "idle", code |-> 0, chat_ids |-> <<>>, symbols |-> <<>>,
         notify |-> FALSE, results |-> <<>>, passing |-> <<>>,
         posts |-> <<>>]

\* The universe tiers: what get_all_nse_stocks (full) and get_nse_stock_list
\* (mid) do when called, and the universes the invocations of the current
\* pass have computed.
\*   "ok"     the list loads (for full: more than 1000 symbols)
\*   "short"  full only: a list of 1000 symbols or fewer
\*   "empty"  the empty list
\*   "raise"  the import or the call raises
TiersUp == [full |-> "ok", mid |-> "ok", saw |-> {}]

\* get_all_stocks (lines 115-141): the full list if it loads with more than
\* 1000 symbols; otherwise whatever get_nse_stock_list returns; the hard-coded
\* list only if that raises.
get_all_stocks ==
    IF tier.full = "ok" THEN FullList
    ELSE IF tier.mid = "ok" THEN MidList
    ELSE IF tier.mid = "empty" THEN <<>>
    ELSE HardCodedStocks
\* No overlapping invocations are under way.
NoInv == <<>>

\* No /scanall command has been handled.
NoCmd == [reply |-> "none"]

\* scan_state as the server module creates it (railway_server.py lines
\* 27-35), no scan thread, no request answered.
NoSrv ==
    [scan_state |-> [status |-> "idle", progress |-> 0, total |-> 0,
                     results |-> <<>>, last_scan |-> <<>>,
                     is_scanning |-> FALSE],
     threads |-> <<>>, reply |-> "none"]

\* No results file, nothing loaded.
\* The results file of the polling bot (SCAN_RESULTS_FILE, bot.py line 21):
\* absent until the first save. call is the last call made on it and returned
\* what that call returned.
NoFiles ==
    [state |-> "absent", data |-> <<>>,
     call |-> [op |-> "none"], returned |-> [kind |-> "None"]]

ExtIdle == cmd = NoCmd /\ srv = NoSrv /\ files = NoFiles

AuxIdle ==
    /\ seen = <<>> /\ tg = NoTg /\ ep = NoEp /\ tier = TiersUp /\ inv = NoInv
    /\ ExtIdle

Idle ==
    /\ lp = LpIdle /\ hist = <<>> /\ calc = NoCalc /\ http = NoHttp
    /\ AuxIdle

\* ------------------------------------------------------------ the KV store
\* (kv_get_IgnoresOutage is the variant in which a read returns what the store
\* holds even while it is unreachable.)
kv_get_IgnoresOutage(key) == kv[key]

kv_get(key) == IF ~redis_up THEN None ELSE kv[key]

\* The store after kv_set(key, value) on store st.
kv_set(st, key, value) ==
    IF ~redis_up THEN st ELSE [st EXCEPT ![key] = Some(value)]

\* --------------------------------------------------------- per-symbol check
\* check_stock_quick: a result only for a history of at least 200 bars whose
\* score is 9; every exception is swallowed.
check_stock_quick(symbol) ==
    LET resp == provider[symbol] IN
    IF resp = "raise" THEN None
    ELSE IF resp = "short" THEN None
    ELSE IF resp = "score9" THEN Some([symbol |-> symbol, pass |-> pass])
    ELSE None

\* ------------------------------------------------------------ the scan loop
\* The loop state: offset, scanned_count, new_results and, as history, the
\* universe indices whose iteration ran.  (LoopStart_FromZero is the variant
\* in which the loop ignores the loaded offset.)
LoopStart_FromZero(offset) ==
    [offset |-> 0, scanned_count |-> 0, new_results |-> <<>>,
     evaluated |-> <<>>]

LoopStart(offset) ==
    [offset |-> offset, scanned_count |-> 0, new_results |-> <<>>,
     evaluated |-> <<>>]

\* Variant: the offset advances only when the check returned a result.
AdvanceOffset_OnlyOnResult(offset, result) ==
    IF result # None THEN offset + 1 ELSE offset

\* "offset += 1" at the end of every iteration.
AdvanceOffset(offset, result) == offset + 1

\* all_stocks[offset] (line 252): a negative index counts from the end of
\* the list; an index below -len raises IndexError.
IndexError(all_stocks, offset) == offset < -Len(all_stocks)

Subscript(all_stocks, offset) ==
    IF offset >= 0 THEN all_stocks[offset + 1]
    ELSE all_stocks[Len(all_stocks) + offset + 1]

\* One iteration of the while loop (lines 252-261).
LoopBody(l) ==
    LET symbol == Subscript(get_all_stocks, l.offset)
        result == IF symbol # "" THEN check_stock_quick(symbol) ELSE None
    IN  [offset        |-> AdvanceOffset(l.offset, result),
         scanned_count |-> l.scanned_count + 1,
         new_results   |-> IF result # None
                           THEN Append(l.new_results, result[1])
                           ELSE l.new_results,
         evaluated     |-> Append(l.evaluated, l.offset)]

\* "while time.time() - start_time < MAX_DURATION and offset < total".
RECURSIVE ScanLoop(_, _, _)
ScanLoop(budget, total, l) ==
    IF budget > 0 /\ l.offset < total
    THEN ScanLoop(budget - 1, total, LoopBody(l))
    ELSE l


\* ------------------------------------------------------ end-of-cycle report
\* At most this many results are listed ("all_results[:15]").
TopN == 15

Symbols(results) == [i \in 1..Len(results) |-> results[i].symbol]

Min(a, b) == IF a <= b THEN a ELSE b

\* Variant: the digest never says how many results it left out.
FormatReport_NoOverflow(all_results, total) ==
    IF all_results # <<>>
    THEN [kind    |-> "scan_complete",
          scanned |-> total,
          found   |-> Len(all_results),
          listed  |-> SubSeq(Symbols(all_results), 1,
                             Min(Len(all_results), TopN)),
          more    |-> 0]
    ELSE [kind |-> "no_matches", scanned |-> total]

\* The message built at lines 274-289: the digest of a non-empty result
\* list (the first TopN symbols and, in more, the K of the "...and K more"
\* line, 0 when the line is absent), or the no-matches variant.
FormatReport(all_results, total) ==
    IF all_results # <<>>
    THEN [kind    |-> "scan_complete",
          scanned |-> total,
          found   |-> Len(all_results),
          listed  |-> SubSeq(Symbols(all_results), 1,
                             Min(Len(all_results), TopN)),
          more    |-> IF Len(all_results) > TopN
                      THEN Len(all_results) - TopN ELSE 0]
    ELSE [kind |-> "no_matches", scanned |-> total]

\* ------------------------------------------------------------ run_batch_scan
NoObs == [offset |-> 0, current_results |-> <<>>, evaluated |-> <<>>,
          new_results |-> <<>>, loop_offset |-> 0]

\* "offset = kv_get('scan_offset') or 0" (lines 216-218).
LoadOffset == OrInt(kv_get("scan_offset"), 0)

\* "current_results = kv_get('scan_results') or []" (lines 224-226).
LoadResults == OrList(kv_get("scan_results"), <<>>)

\* Variant: the cooldown window is one hour instead of four.
CooldownActive_OneHour(offset) ==
    LET last_complete == kv_get("last_scan_complete") IN
    /\ offset = 0
    /\ last_complete # None
    /\ now - last_complete[1] < 1

\* The cooldown test of lines 229-236, on the loaded offset.
CooldownActive(offset) ==
    LET last_complete == kv_get("last_scan_complete") IN
    /\ offset = 0
    /\ last_complete # None
    /\ now - last_complete[1] < CooldownHours

\* Variant: the loaded results are kept when a new scan starts.
StartResults_KeepLoaded(offset, loaded) == loaded

\* "current_results = []" when a new scan starts (line 245).
StartResults(offset, loaded) == IF offset = 0 THEN <<>> ELSE loaded

\* Variant: only this batch's results are kept.
MergeResults_NewOnly(current_results, new_results) == new_results

\* Variant: the new results are put in front of the accumulated ones.
MergeResults_Prepend(current_results, new_results) ==
    new_results \o current_results

\* "all_results = current_results + new_results" (line 264).
MergeResults(current_results, new_results) == current_results \o new_results

\* Variant: off by one, completion needs offset beyond the universe.
IsComplete_Strict(offset, total) == offset > total

\* "is_complete = offset >= total" (line 267).
IsComplete(offset, total) == offset >= total

\* "offset = 0" on completion (line 270).
FinalOffset(offset, is_complete) == IF is_complete THEN 0 ELSE offset

\* Variant: the write of scan_results (line 293) is missing.
SaveState_NoResults(is_complete, offset, all_results) ==
    LET kv1 == IF is_complete
               THEN kv_set(kv, "last_scan_complete", now) ELSE kv
    IN  kv_set(kv1, "scan_offset", offset)

\* The three writes of lines 271, 292 and 293, in program order.
SaveState(is_complete, offset, all_results) ==
    LET kv1 == IF is_complete
               THEN kv_set(kv, "last_scan_complete", now) ELSE kv
        kv2 == kv_set(kv1, "scan_offset", offset)
    IN  kv_set(kv2, "scan_results", all_results)

\* Variant: an invocation that ends the pass reports "done".
Status_Done(is_complete) ==
    IF ~is_complete THEN "partial_complete" ELSE "done"

\* The status of the returned dict (line 296).
Status(is_complete) ==
    IF ~is_complete THEN "partial_complete" ELSE "scan_complete"

\* Lines 212-213: yfinance is missing.
ReturnError ==
    /\ ret' = [error |-> "yfinance not available"]
    /\ obs' = NoObs
    /\ sent' = <<>>
    /\ UNCHANGED <<kv, redis_up, yf, provider, now, pass, completed>>
    /\ UNCHANGED <<lp, hist, calc>>

\* Variant: the new scan is started (results cleared and saved) before the
\* cooldown is tested.
ReturnWaiting_ClearsResults(offset, loaded) ==
    /\ ret' = [status |-> "waiting"]
    /\ obs' = [NoObs EXCEPT !.offset = offset,
                            !.current_results = loaded,
                            !.loop_offset = offset]
    /\ sent' = <<>>
    /\ kv' = kv_set(kv, "scan_results", <<>>)
    /\ UNCHANGED <<redis_up, yf, provider, now, pass, completed>>
    /\ UNCHANGED <<lp, hist, calc>>

\* Lines 237-240: the cooldown is active, nothing is scanned or written.
ReturnWaiting(offset, loaded) ==
    /\ ret' = [status |-> "waiting"]
    /\ obs' = [NoObs EXCEPT !.offset = offset,
                            !.current_results = loaded,
                            !.loop_offset = offset]
    /\ sent' = <<>>
    /\ UNCHANGED <<kv, redis_up, yf, provider, now, pass, completed>>
    /\ UNCHANGED <<lp, hist, calc>>

\* Lines 244-303: scan from the loaded offset, merge, save, report.
ScanAndSave(budget, offset0, loaded) ==
    LET total           == Len(get_all_stocks)
        current_results == StartResults(offset0, loaded)
        l               == ScanLoop(budget, total, LoopStart(offset0))
        all_results     == MergeResults(current_results, l.new_results)
        is_complete     == IsComplete(l.offset, total)
        offset          == FinalOffset(l.offset, is_complete)
    IN  /\ kv' = SaveState(is_complete, offset, all_results)
        /\ sent' = IF is_complete
                   THEN <<FormatReport(all_results, total)>> ELSE <<>>
        /\ ret' = [status         |-> Status(is_complete),
                   processed      |-> l.scanned_count,
                   offset         |-> offset,
                   total          |-> total,
                   found_total    |-> Len(all_results),
                   found_in_batch |-> Len(l.new_results),
                   next_offset    |-> offset]
        /\ obs' = [offset          |-> offset0,
                   current_results |-> current_results,
                   evaluated       |-> l.evaluated,
                   new_results     |-> l.new_results,
                   loop_offset     |-> l.offset]
        /\ pass' = IF is_complete THEN pass + 1 ELSE pass
        /\ completed' = is_complete
        /\ UNCHANGED <<redis_up, yf, provider, now>>
        /\ UNCHANGED <<lp, hist, calc>>

\* The first subscript of the loop (line 252) raises IndexError: the
\* exception leaves run_batch_scan before anything is saved or sent.  Later
\* subscripts cannot raise, the offset only grows.
RaiseIndexError(offset, loaded) ==
    /\ ret' = [raised |-> "IndexError"]
    /\ obs' = [NoObs EXCEPT !.offset = offset,
                            !.current_results = StartResults(offset, loaded),
                            !.loop_offset = offset]
    /\ sent' = <<>>
    /\ UNCHANGED <<kv, redis_up, yf, provider, now, pass, completed>>
    /\ UNCHANGED <<lp, hist, calc>>

\* One invocation of run_batch_scan whose time budget lets the loop
\* condition hold budget times.
run_batch_scan(budget) ==
    IF ~yf THEN ReturnError
    ELSE IF CooldownActive(LoadOffset)
         THEN ReturnWaiting(LoadOffset, LoadResults)
    ELSE IF budget > 0 /\ IndexError(get_all_stocks, LoadOffset)
         THEN RaiseIndexError(LoadOffset, LoadResults)
         ELSE ScanAndSave(budget, LoadOffset, LoadResults)

\* A cron trigger runs one invocation.
Invoke ==
    /\ \E budget \in 0..MaxBudget : run_batch_scan(budget)
    /\ UNCHANGED http
    /\ UNCHANGED aux

\* ------------------------------------------------------------- environment
\* An hour passes.
Tick ==
    /\ now < MaxTime
    /\ now' = now + 1
    /\ UNCHANGED <<kv, redis_up, yf, provider, pass, ret, obs, sent, completed>>
    /\ UNCHANGED <<lp, hist, calc, http>>
    /\ UNCHANGED aux

\* The market moves: the provider's answer for one symbol changes.
ProviderUpdate ==
    \E s \in RealSymbols, r \in Responses :
        /\ r # provider[s]
        /\ provider' = [provider EXCEPT ![s] = r]
        /\ UNCHANGED <<kv, redis_up, yf, now, pass, ret, obs, sent, completed>>
        /\ UNCHANGED <<lp, hist, calc, http>>
        /\ UNCHANGED aux

\* ----------------------------------------------------------- specifications
\* A fresh deployment: the store holds no key.
Init ==
    /\ kv = [k \in Keys |-> None]
    /\ redis_up = TRUE
    /\ yf \in BOOLEAN
    /\ provider \in [RealSymbols -> Responses]
    /\ now = 0
    /\ pass = 0
    /\ ret = [status |-> "none"]
    /\ obs = NoObs
    /\ sent = <<>>
    /\ completed = FALSE
    /\ Idle

Next == Invoke \/ Tick \/ ProviderUpdate

\* Sequential invocations, the clock and a changing market.
Spec == Init /\ [][Next]_vars

NextDet == Invoke \/ Tick

\* Sequential invocations with a deterministic price provider.
DetSpec == Init /\ [][NextDet]_vars


\* The results a pass has accumulated when it stands at offset k and the
\* symbols of S qualified when they were checked.
ResultsOf(k, S) ==
    LET Hit(s) == s \in S
    IN  [i \in 1..Len(SelectSeq(SubSeq(FullList, 1, k), Hit)) |->
            [symbol |-> SelectSeq(SubSeq(FullList, 1, k), Hit)[i],
             pass   |-> 0]]

\* Any progress a deployment can have persisted: no key yet or an offset
\* inside the universe with the results found below it, with or without a
\* completion time, at any hour.
LiveInit ==
    /\ \E o \in {None} \cup {Some(k) : k \in 0..(Len(FullList) - 1)},
          S \in SUBSET RealSymbols,
          lc \in {None, Some(0)} :
            kv = [k \in Keys |->
                    IF k = "scan_offset" THEN o
                    ELSE IF k = "last_scan_complete" THEN lc
                    ELSE IF o = None THEN None
                    ELSE Some(ResultsOf(o[1], S))]
    /\ redis_up = TRUE
    /\ yf \in BOOLEAN
    /\ provider \in [RealSymbols -> Responses]
    /\ now \in 0..MaxTime
    /\ pass = 0
    /\ ret = [status |-> "none"]
    /\ obs = NoObs
    /\ sent = <<>>
    /\ completed = FALSE
    /\ Idle

\* The scheduler keeps triggering invocations, from any persisted progress.
LiveSpec == LiveInit /\ [][NextDet]_vars /\ WF_vars(Invoke)

\* ================================================================== claims
StatusOf(r) == IF "status" \in DOMAIN r THEN r.status ELSE "error"

\* The invocation scanned: it went through the loop and the save.
Scanned(r) == StatusOf(r) \in {"partial_complete", "scan_complete"}

\* The persisted progress as an invocation reads it.
PersistedOffset == OrInt(kv["scan_offset"], 0)
PersistedResults == OrList(kv["scan_results"], <<>>)

Total == Len(get_all_stocks)

\* Every invocation made so far evaluated at least one symbol.
EveryInvocationEvaluates == StatusOf(ret) # "none" => obs.evaluated # <<>>

\* C1: from any persisted offset in 0..total-1, with a working store,
\* repeated invocations that each evaluate at least one symbol eventually
\* return scan_complete, whatever the per-symbol checks give.
C1_EventualCompletion ==
    []EveryInvocationEvaluates => <>(StatusOf(ret) = "scan_complete")

\* A pass resumed at a persisted offset, met a failing check and completed.
C1_Witness ==
    /\ StatusOf(ret) = "scan_complete"
    /\ obs.offset = 1
    /\ obs.evaluated = <<1, 2>>
    /\ provider["TCS"] = "raise"
    /\ obs.new_results = <<>>

\* C2: in the scanning loop every iteration increases offset by exactly 1,
\* whatever check_stock_quick returns and also for an empty symbol: an
\* invocation whose budget allows b iterations from loaded offset k runs
\* exactly min(b, total - k) iterations over the consecutive indices
\* k, k+1, ..., ends the loop at k + min(b, total - k), and its status
\* depends on that end offset only, never on a per-symbol failure.
C2_OffsetAdvancesPerSymbol ==
    [][\A b \in 0..MaxBudget :
        (run_batch_scan(b) /\ Scanned(ret')) =>
            LET k == LoadOffset
                n == Min(b, Total - k)
            IN  /\ obs'.loop_offset = k + n
                /\ ret'.processed = n
                /\ obs'.evaluated = [i \in 1..n |-> k + i - 1]
                /\ ret'.status = Status(k + n >= Total)]_vars

\* An invocation ran three iterations, over a symbol whose check raised,
\* a symbol that qualified and the empty symbol.
C2_Witness ==
    /\ obs.evaluated = <<0, 1, 2>>
    /\ provider["RELIANCE"] = "raise"
    /\ Len(obs.new_results) = 1
    /\ ret.status = "scan_complete"

\* C3: an invocation that loads offset 0 and a last_scan_complete less than
\* 4 hours old returns waiting and evaluates no symbol.
C3_CooldownBlocksNewPass ==
    [][\A b \in 0..MaxBudget :
        (/\ run_batch_scan(b)
         /\ yf
         /\ LoadOffset = 0
         /\ kv_get("last_scan_complete") # None
         /\ now - kv_get("last_scan_complete")[1] < 4)
        => (StatusOf(ret') = "waiting" /\ obs'.evaluated = <<>>)]_vars

\* A pass was completed 3 hours ago and the invocation returned waiting.
C3_Witness ==
    /\ StatusOf(ret) = "waiting"
    /\ kv["last_scan_complete"] # None
    /\ now - kv["last_scan_complete"][1] = 3
    /\ PersistedOffset = 0

\* C4: an invocation that returns waiting leaves scan_offset, scan_results
\* and last_scan_complete unchanged and sends no notification.
C4_WaitingChangesNothing ==
    [][\A b \in 0..MaxBudget :
        (run_batch_scan(b) /\ StatusOf(ret') = "waiting")
        => (kv' = kv /\ sent' = <<>>)]_vars

\* A waiting invocation with results of the finished pass in the store.
C4_Witness ==
    /\ StatusOf(ret) = "waiting"
    /\ Len(PersistedResults) = 2
    /\ sent = <<>>


\* C5 as stated: after every invocation the persisted scan_offset is greater
\* than or equal to the persisted scan_offset before it.
C5_Original ==
    [][\A b \in 0..MaxBudget :
        run_batch_scan(b) => PersistedOffset' >= PersistedOffset]_vars

\* C5 amended: after every invocation that does not return scan_complete the
\* persisted scan_offset is greater than or equal to the one before it,
\* whatever per-symbol checks fail; an invocation that returns scan_complete
\* persists scan_offset 0.
C5_OffsetMonotoneUntilComplete ==
    [][\A b \in 0..MaxBudget :
        run_batch_scan(b) =>
            /\ StatusOf(ret') # "scan_complete"
                   => PersistedOffset' >= PersistedOffset
            /\ StatusOf(ret') = "scan_complete"
                   => kv'["scan_offset"] = Some(0)]_vars

\* A partial invocation that started inside a pass, met only failing
\* symbols and moved the persisted offset forward.
C5_Witness ==
    /\ StatusOf(ret) = "partial_complete"
    /\ obs.offset = 1
    /\ PersistedOffset = 2
    /\ obs.new_results = <<>>

\* C6: when the last invocation that scanned ended a pass, the next
\* invocation that is not blocked by the cooldown starts at universe index 0
\* with an empty accumulated list, and every result it persists was produced
\* in the new pass.
C6_NewPassStartsEmpty ==
    [][\A b \in 0..MaxBudget :
        (run_batch_scan(b) /\ completed /\ Scanned(ret')) =>
            /\ obs'.offset = 0
            /\ obs'.current_results = <<>>
            /\ obs'.evaluated # <<>> => obs'.evaluated[1] = 0
            /\ PersistedResults' = obs'.new_results
            /\ \A i \in 1..Len(PersistedResults') :
                   PersistedResults'[i].pass = pass]_vars

\* The first invocation of a second pass found a result at index 0; the
\* finished pass had found a result too.
C6_Witness ==
    /\ pass = 1
    /\ StatusOf(ret) = "partial_complete"
    /\ obs.offset = 0
    /\ Len(obs.new_results) = 1
    /\ PersistedResults = obs.new_results

\* C7: within a pass the persisted scan_offset never decreases and the
\* persisted scan_results only grow: an invocation that loads an offset
\* above 0 persists a list that has the list persisted before as a prefix,
\* and persists a smaller offset only when it returns scan_complete.  The
\* offset goes back (to 0) only in the invocation that ends a pass, and the
\* list is replaced only by an invocation that loads offset 0, the one that
\* starts a pass.
C7_PassMonotone ==
    [][\A b \in 0..MaxBudget :
        (run_batch_scan(b) /\ Scanned(ret')) =>
            /\ PersistedOffset > 0
                   => IsPrefix(PersistedResults, PersistedResults')
            /\ PersistedOffset' < PersistedOffset
                   => (ret'.status = "scan_complete" /\ PersistedOffset' = 0)
            /\ ~IsPrefix(PersistedResults, PersistedResults')
                   => (PersistedOffset = 0 /\ obs'.current_results = <<>>)]_vars

\* An invocation inside a pass extended a non-empty persisted list.
C7_Witness ==
    /\ StatusOf(ret) = "partial_complete"
    /\ obs.offset = 1
    /\ Len(obs.current_results) = 1
    /\ Len(PersistedResults) = 2

\* C8 as stated: on partial_complete the persisted scan_results are the
\* loaded results followed by this batch's new results and found_total is
\* the previous found count plus found_in_batch.
C8_Original ==
    [][\A b \in 0..MaxBudget :
        (run_batch_scan(b) /\ StatusOf(ret') = "partial_complete") =>
            /\ PersistedResults' = LoadResults \o obs'.new_results
            /\ ret'.found_total = Len(LoadResults) + ret'.found_in_batch]_vars

\* C8 amended: on partial_complete the persisted scan_offset is the loaded
\* offset plus the processed count and is below the universe length; the
\* persisted scan_results are the accumulated results of the current pass
\* (the loaded results when the loaded offset is above 0, the empty list
\* when it is 0) followed by this batch's new results; found_total is the
\* length of the persisted list, which is the length of that accumulated
\* list plus found_in_batch; next_offset is the persisted scan_offset.
C8_PartialCompleteCounts ==
    [][\A b \in 0..MaxBudget :
        (run_batch_scan(b) /\ StatusOf(ret') = "partial_complete") =>
            LET accumulated == IF LoadOffset = 0 THEN <<>> ELSE LoadResults
            IN  /\ kv'["scan_offset"] = Some(LoadOffset + ret'.processed)
                /\ LoadOffset + ret'.processed < Total
                /\ kv'["scan_results"] = Some(accumulated \o obs'.new_results)
                /\ ret'.found_in_batch = Len(obs'.new_results)
                /\ ret'.found_total = Len(kv'["scan_results"][1])
                /\ ret'.found_total = Len(accumulated) + ret'.found_in_batch
                /\ ret'.next_offset = kv'["scan_offset"][1]]_vars

\* A partial invocation inside a pass added a result to a non-empty list.
C8_Witness ==
    /\ StatusOf(ret) = "partial_complete"
    /\ obs.offset = 1
    /\ ret.found_total = 2
    /\ ret.found_in_batch = 1

\* C9: an invocation returns scan_complete exactly when its loop ends with
\* offset >= universe length; it then persists scan_offset 0,
\* last_scan_complete = now and the merged list, and hands exactly one
\* report to the notification sink, the no-matches variant exactly when the
\* merged list is empty.  Any other invocation sends nothing and leaves
\* last_scan_complete alone.
C9_CompletionEffects ==
    [][\A b \in 0..MaxBudget :
        run_batch_scan(b) =>
            LET merged == obs'.current_results \o obs'.new_results IN
            /\ StatusOf(ret') = "scan_complete"
                   <=> (Scanned(ret') /\ obs'.loop_offset >= Total)
            /\ StatusOf(ret') = "scan_complete" =>
                   /\ kv'["scan_offset"] = Some(0)
                   /\ kv'["last_scan_complete"] = Some(now)
                   /\ kv'["scan_results"] = Some(merged)
                   /\ Len(sent') = 1
                   /\ sent'[1].kind = "no_matches" <=> merged = <<>>
                   /\ sent'[1].kind = "scan_complete" =>
                          sent'[1].listed = Symbols(merged)
            /\ StatusOf(ret') # "scan_complete" =>
                   /\ sent' = <<>>
                   /\ kv'["last_scan_complete"] = kv["last_scan_complete"]]_vars

\* A pass ended with two results and one digest listing them.
C9_Witness ==
    /\ StatusOf(ret) = "scan_complete"
    /\ Len(sent) = 1
    /\ sent[1].kind = "scan_complete"
    /\ sent[1].listed = <<"RELIANCE", "TCS">>
    /\ kv["scan_offset"] = Some(0)

\* A pass ended without any result and the no-matches message was sent.
C9_WitnessNoMatches ==
    /\ StatusOf(ret) = "scan_complete"
    /\ Len(sent) = 1
    /\ sent[1].kind = "no_matches"


\* The symbols that qualify, in universe order.
Qualifying ==
    LET Hit(s) == s # "" /\ provider[s] = "score9"
    IN  SelectSeq(get_all_stocks, Hit)

\* C10: with a fixed universe and a deterministic provider, however the pass
\* was split into invocations, at scan_complete the loop has ended where a
\* single invocation with an unbounded budget ends and the persisted result
\* list is the one that invocation produces: the qualifying symbols in
\* universe order, each once, all found in the pass just ended.
C10_BatchingIndependent ==
    StatusOf(ret) = "scan_complete" =>
        LET single == ScanLoop(Total, Total, LoopStart(0)) IN
        /\ obs.loop_offset = single.offset
        /\ Symbols(PersistedResults) = Symbols(single.new_results)
        /\ Symbols(PersistedResults) = Qualifying
        /\ \A i \in 1..Len(PersistedResults) :
               PersistedResults[i].pass = pass - 1

\* A pass ended in a second invocation, with one result from each batch.
C10_Witness ==
    /\ StatusOf(ret) = "scan_complete"
    /\ obs.offset = 1
    /\ Len(obs.current_results) = 1
    /\ Len(obs.new_results) = 1
    /\ Symbols(PersistedResults) = <<"RELIANCE", "TCS">>


\* ------------------------------------------------- per-invocation bounds
\* BATCH_SIZE ("Stocks per invocation", cron-scan.py line 32) is 30 in the
\* source; here it is scaled to the universe of MaxStocks symbols.  The source
\* assigns it and never reads it: run_batch_scan, and so ScanLoop, is bounded
\* by the time budget alone.
BATCH_SIZE == 2

\* C11: an invocation that scans evaluates at most BATCH_SIZE symbols (with a
\* universe of three symbols and batch size 2 the first invocation stops at
\* offset 2 with partial_complete).
C11_Original ==
    Scanned(ret) => Len(obs.evaluated) <= BATCH_SIZE


\* ------------------------------------------- the scan loop, step by step
\* Seconds one evaluation (the provider download) can take, at most.
MaxEvalTime == 4
\* Seconds that can pass between start_time and the first loop test, at most.
MaxSetup == 2

\* "MAX_DURATION = 9  # Seconds" (cron-scan.py line 210).
MAX_DURATION == 9

\* Variant: the loop goes on while the elapsed time is at most MAX_DURATION.
BudgetRemains_Inclusive(elapsed) == elapsed <= MAX_DURATION

\* "time.time() - start_time < MAX_DURATION" (line 251).
BudgetRemains(elapsed) == elapsed < MAX_DURATION

\* The values every variable outside the part under study keeps.
Quiescent ==
    /\ kv = [k \in Keys |-> None]
    /\ redis_up = TRUE
    /\ yf = TRUE
    /\ now = 0
    /\ pass = 0
    /\ ret = [status |-> "none"]
    /\ obs = NoObs
    /\ sent = <<>>
    /\ completed = FALSE

\* The loop is about to test its condition for the first time: offset as
\* loaded, scanned_count = 0, new_results = [] (lines 247-248).
LoopInit ==
    /\ Quiescent
    /\ provider \in [RealSymbols -> {"raise", "score9"}]
    /\ hist = <<>> /\ calc = NoCalc /\ http = NoHttp
    /\ AuxIdle
    /\ \E offset \in 0..Len(FullList), setup \in 0..MaxSetup :
           lp = [pc |-> "test", elapsed |-> setup, offset0 |-> offset,
                 l |-> LoopStart(offset), started |-> <<>>]

\* The while condition is tested (line 251): the iteration starts, or the
\* loop exits.  started records, as history, the index of each iteration that
\* began and the elapsed time at which its test was made.
LoopTest ==
    /\ lp.pc = "test"
    /\ IF BudgetRemains(lp.elapsed) /\ lp.l.offset < Len(get_all_stocks)
       THEN lp' = [lp EXCEPT !.pc = "body",
                             !.started = Append(@, [index |-> lp.l.offset,
                                                    at |-> lp.elapsed])]
       ELSE lp' = [lp EXCEPT !.pc = "exit"]
    /\ UNCHANGED <<kv, redis_up, yf, provider, now, pass, ret, obs, sent,
                   completed, hist, calc, http>>
    /\ UNCHANGED aux

\* The body of one iteration (lines 252-261): a blank symbol is skipped in no
\* time, any other is evaluated, which takes up to MaxEvalTime seconds and
\* raises nothing (check_stock_quick catches every exception, lines 203-204);
\* then offset and scanned_count are incremented.
LoopIteration ==
    /\ lp.pc = "body"
    /\ \E took \in 0..MaxEvalTime :
           /\ get_all_stocks[lp.l.offset + 1] = "" => took = 0
           /\ lp' = [lp EXCEPT !.pc = "test",
                               !.elapsed = @ + took,
                               !.l = LoopBody(lp.l)]
    /\ UNCHANGED <<kv, redis_up, yf, provider, now, pass, ret, obs, sent,
                   completed, hist, calc, http>>
    /\ UNCHANGED aux

LoopNext == LoopTest \/ LoopIteration

\* One run of the while loop of run_batch_scan, one step at a time.
LoopSpec == LoopInit /\ [][LoopNext]_vars /\ WF_vars(LoopNext)

\* C12: the time budget is tested before each symbol: every iteration that
\* started had its test made with less than MAX_DURATION seconds elapsed, an
\* iteration that has started is the only one not yet counted, and when the
\* loop exits every started symbol has been counted in scanned_count and in
\* offset, in universe order.
C12_BudgetCheckedBetweenSymbols ==
    lp.pc # "idle" =>
        /\ \A i \in 1..Len(lp.started) :
               /\ lp.started[i].at < MAX_DURATION
               /\ lp.started[i].index = lp.offset0 + i - 1
        /\ lp.pc = "body" => Len(lp.started) = lp.l.scanned_count + 1
        /\ lp.pc \in {"test", "exit"} =>
               /\ lp.l.scanned_count = Len(lp.started)
               /\ lp.l.offset = lp.offset0 + Len(lp.started)
               /\ lp.l.evaluated =
                      [i \in 1..Len(lp.started) |-> lp.started[i].index]
        /\ lp.pc = "exit" =>
               \/ lp.elapsed >= MAX_DURATION
               \/ lp.l.offset >= Len(get_all_stocks)

\* The loop exits on the time budget with symbols left: the last evaluation
\* started inside the budget, ran past it and was still counted.
C12_Witness ==
    /\ lp.pc = "exit"
    /\ lp.l.offset < Len(get_all_stocks)
    /\ lp.l.scanned_count = 2
    /\ lp.started[2].at = MAX_DURATION - 3
    /\ lp.elapsed = MAX_DURATION + 1


\* ------------------------------------------------- the trend calculators
\* The three implementations of the nine-point trend template:
\* check_stock_quick (cron-scan.py, the batch scan), quick_check_stock
\* (scan.py, the on-demand scan endpoint) and handle_check (webhook.py, the
\* /check command).  Each one is applied to the price history the provider
\* returned, a sequence of daily bars, oldest first.

\* Number of price levels the bars of a history are drawn from.
MaxLevel == 2
\* Bars a history can have beyond the 222 the trend criterion needs.
MaxExtra == 1

\* "MIN_PERCENT_ABOVE_52W_LOW = 30" (cron-scan.py line 33, webhook.py line
\* 24; the literal 30 of scan.py line 75).
MIN_PERCENT_ABOVE_52W_LOW == 30
\* "MAX_PERCENT_FROM_52W_HIGH = 25" (cron-scan.py line 34, webhook.py line
\* 25; the literal 25 of scan.py line 76).
MAX_PERCENT_FROM_52W_HIGH == 25
\* "if days_available >= 222" (webhook.py lines 110 and 143; scan.py line 61).
TREND_MIN_BARS == 222

\* A float is a fraction num/den of integers, compared by cross
\* multiplication; the prices are whole numbers, so every sum and every
\* comparison below is exact, as it is in double precision for such values.
\* NaN is the float with den = 0.
NaN == [num |-> 0, den |-> 0]
IsNaN(x) == x.den = 0
Float(n) == [num |-> n, den |-> 1]

\* x > y on floats: False when either side is NaN.
Gt(x, y) == ~IsNaN(x) /\ ~IsNaN(y) /\ x.num * y.den > y.num * x.den

\* bool(x) of an optional float: None and 0.0 are falsy, NaN is truthy.
Truthy(x) == x # None /\ (IsNaN(x[1]) \/ x[1].num # 0)

\* The float inside an optional float (NaN stands in where there is none,
\* which the callers never read).
Val(x) == IF x = None THEN NaN ELSE x[1]

Bool(b) == IF b THEN "True" ELSE "False"

\* The sum of the closes of bars lo..hi, by halves.
RECURSIVE SumClose(_, _, _)
SumClose(h, lo, hi) ==
    IF lo > hi THEN 0
    ELSE IF lo = hi THEN h[lo].Close
    ELSE LET half == (lo + hi) \div 2
         IN  SumClose(h, lo, half) + SumClose(h, half + 1, hi)

\* Variant: rolling(window, min_periods=1), the mean of the bars there are.
RollingMean_MinPeriods1(h, window, pos) ==
    LET lo == IF pos < window THEN 1 ELSE pos - window + 1
    IN  [num |-> SumClose(h, lo, pos), den |-> pos - lo + 1]

\* hist['Close'].rolling(window).mean() at position pos (1 is the oldest
\* bar): NaN until window bars are there.
RollingMean(h, window, pos) ==
    IF pos < window THEN NaN
    ELSE [num |-> SumClose(h, pos - window + 1, pos), den |-> window]

\* Position of .iloc[-k] in a history of Len(h) bars.
FromEnd(h, k) == Len(h) - k + 1

\* hist['High'].max() and hist['Low'].min().
high_52w(h) ==
    LET S == {h[i].High : i \in DOMAIN h}
    IN  CHOOSE x \in S : \A y \in S : y <= x
low_52w(h) ==
    LET S == {h[i].Low : i \in DOMAIN h}
    IN  CHOOSE x \in S : \A y \in S : x <= y

current_price(h) == h[Len(h)].Close

\* "pct_above_low >= MIN_PERCENT_ABOVE_52W_LOW" with
\* pct_above_low = ((current_price - low_52w) / low_52w) * 100, low_52w > 0.
AboveLow(h) ==
    (current_price(h) - low_52w(h)) * 100
        >= MIN_PERCENT_ABOVE_52W_LOW * low_52w(h)

\* "pct_from_high <= MAX_PERCENT_FROM_52W_HIGH" with
\* pct_from_high = ((high_52w - current_price) / high_52w) * 100.
NearHigh(h) ==
    (high_52w(h) - current_price(h)) * 100
        <= MAX_PERCENT_FROM_52W_HIGH * high_52w(h)

\* "score = sum(1 for v in criteria.values() if v)": None, False and 0.0 do
\* not count.
Score(criteria) == Cardinality({i \in DOMAIN criteria : criteria[i] = "True"})

\* What a calculator gives: the kind of value returned and, as history, the
\* criteria it computed on the way (none when it returned before them).
Outcome(kind, criteria) ==
    [kind |-> kind, criteria |-> criteria, score |-> Score(criteria)]

NotRun == Outcome("not_run", <<>>)

\* ---- check_stock_quick (cron-scan.py lines 144-204)
\* Variant: a score of 8 is high enough.
ScoreHighEnough_Eight(score) == score >= 8

\* "if score >= 9" (line 190).
ScoreHighEnough(score) == score >= 9

check_stock_quick_on(h) ==
    IF h = <<>> \/ Len(h) < 200 THEN Outcome("None", <<>>)
    ELSE
    LET price   == Float(current_price(h))
        sma_50  == RollingMean(h, 50, FromEnd(h, 1))
        sma_150 == RollingMean(h, 150, FromEnd(h, 1))
        sma_200 == RollingMean(h, 200, FromEnd(h, 1))
        sma_200_trending ==
            Gt(RollingMean(h, 200, FromEnd(h, 1)),
               RollingMean(h, 200, FromEnd(h, 23)))
        criteria == <<Bool(Gt(price, sma_150)),
                      Bool(Gt(price, sma_200)),
                      Bool(Gt(sma_150, sma_200)),
                      Bool(sma_200_trending),
                      Bool(Gt(sma_50, sma_150)),
                      Bool(Gt(sma_50, sma_200)),
                      Bool(Gt(price, sma_50)),
                      Bool(AboveLow(h)),
                      Bool(NearHigh(h))>>
    IN  IF ScoreHighEnough(Score(criteria))
        THEN Outcome("result", criteria)
        ELSE Outcome("None", criteria)

\* ---- quick_check_stock (scan.py lines 39-96)
\* "a and b" of Python with an optional float on the left: the left operand
\* itself when it is falsy (None, or the float 0.0), the right one otherwise.
AndThen(x, rest) ==
    IF x = None THEN "None"
    ELSE IF ~Truthy(x) THEN "0.0"
    ELSE rest

\* Variant: the rolling mean is taken whatever the length of the history.
sma_at_end_Unguarded(h, window) == Some(RollingMean(h, window, FromEnd(h, 1)))

\* "hist['Close'].rolling(window=w).mean().iloc[-1] if len(hist) >= w else
\* None" (scan.py lines 56-58, webhook.py lines 104-106).
sma_at_end(h, window) ==
    IF Len(h) >= window THEN Some(RollingMean(h, window, FromEnd(h, 1)))
    ELSE None

\* Variant: the month-ago average needs more than 222 bars.
sma_200_1m_Strict(h) ==
    IF Len(h) > TREND_MIN_BARS THEN Some(RollingMean(h, 200, FromEnd(h, 22)))
    ELSE None

\* "hist['Close'].rolling(window=200).mean().iloc[-22] if len(hist) >= 222
\* else None" (scan.py line 61).
sma_200_1m(h) ==
    IF Len(h) >= TREND_MIN_BARS THEN Some(RollingMean(h, 200, FromEnd(h, 22)))
    ELSE None

quick_check_stock(h) ==
    IF h = <<>> THEN Outcome("error", <<>>)
    ELSE
    LET price   == Float(current_price(h))
        sma_50  == sma_at_end(h, 50)
        sma_150 == sma_at_end(h, 150)
        sma_200 == sma_at_end(h, 200)
        past    == sma_200_1m(h)
        criteria ==
            <<AndThen(sma_150, Bool(Gt(price, Val(sma_150)))),
              AndThen(sma_200, Bool(Gt(price, Val(sma_200)))),
              AndThen(sma_150, AndThen(sma_200,
                  Bool(Gt(Val(sma_150), Val(sma_200))))),
              AndThen(sma_200, AndThen(past,
                  Bool(Gt(Val(sma_200), Val(past))))),
              AndThen(sma_50, AndThen(sma_150,
                  Bool(Gt(Val(sma_50), Val(sma_150))))),
              AndThen(sma_50, AndThen(sma_200,
                  Bool(Gt(Val(sma_50), Val(sma_200))))),
              AndThen(sma_50, Bool(Gt(price, Val(sma_50)))),
              Bool(AboveLow(h)),
              Bool(NearHigh(h))>>
    IN  Outcome(IF Score(criteria) = 9 THEN "passes" ELSE "fails", criteria)

\* ---- handle_check (webhook.py lines 80-179)
\* "if a and b: criteria[..] = <comparison> else: criteria[..] = None".
IfBoth(x, y, comparison) ==
    IF Truthy(x) /\ Truthy(y) THEN Bool(comparison) ELSE "None"

handle_check(h) ==
    IF h = <<>> THEN Outcome("error", <<>>)
    ELSE IF Len(h) < 50 THEN Outcome("error", <<>>)
    ELSE
    LET price   == Float(current_price(h))
        sma_50  == sma_at_end(h, 50)
        sma_150 == sma_at_end(h, 150)
        sma_200 == sma_at_end(h, 200)
        sma_200_trending_up ==
            IF Len(h) >= TREND_MIN_BARS
            THEN Gt(RollingMean(h, 200, FromEnd(h, 1)),
                    RollingMean(h, 200, FromEnd(h, 23)))
            ELSE FALSE
        criteria ==
            <<IfBoth(sma_150, sma_150, Gt(price, Val(sma_150))),
              IfBoth(sma_200, sma_200, Gt(price, Val(sma_200))),
              IfBoth(sma_150, sma_200, Gt(Val(sma_150), Val(sma_200))),
              IF Len(h) >= TREND_MIN_BARS THEN Bool(sma_200_trending_up)
                                          ELSE "None",
              IfBoth(sma_50, sma_150, Gt(Val(sma_50), Val(sma_150))),
              IfBoth(sma_50, sma_200, Gt(Val(sma_50), Val(sma_200))),
              IfBoth(sma_50, sma_50, Gt(price, Val(sma_50))),
              Bool(AboveLow(h)),
              Bool(NearHigh(h))>>
        total_criteria ==
            Cardinality({i \in DOMAIN criteria : criteria[i] # "None"})
        passes_all == Score(criteria) = 9 /\ total_criteria = 9
    IN  Outcome(IF passes_all THEN "passes" ELSE "fails", criteria)

\* ---- the histories
\* The closing prices: the first MaxLevel of these.
PriceLevels == <<100, 200, 120, 160>>
Levels == {PriceLevels[i] : i \in 1..MaxLevel}

\* The history lengths: the empty history, one bar, each window with one bar
\* missing and exactly filled, and up to MaxExtra bars beyond the last.
Lengths ==
    {0, 1, 49, 50, 149, 150, 199, 200, TREND_MIN_BARS - 1}
        \cup {TREND_MIN_BARS + e : e \in 0..MaxExtra}

\* A well-formed bar: Low <= Close <= High, all positive.
Bar(c) == [Close |-> c, High |-> c + 1, Low |-> c - 1]

\* The close of the bar d bars from the end (1 is the most recent bar): one
\* level for each stretch of bars that enters the averages together.
CloseAt(d, p) ==
    IF d = 1 THEN p.last
    ELSE IF d = 22 THEN p.d22
    ELSE IF d <= 50 THEN p.recent
    ELSE IF d <= 150 THEN p.mid
    ELSE IF d < TREND_MIN_BARS THEN p.old
    ELSE p.oldest

History(n, p) == [i \in 1..n |-> Bar(CloseAt(n - i + 1, p))]

Shapes ==
    [last : Levels, d22 : Levels, recent : Levels, mid : Levels,
     old : Levels, oldest : Levels]

\* ---- the calculators at work
CalcInit ==
    /\ Quiescent
    /\ provider = [s \in RealSymbols |-> "score9"]
    /\ lp = LpIdle /\ http = NoHttp
    /\ AuxIdle
    /\ calc = NoCalc
    /\ \E n \in Lengths, p \in Shapes : hist = History(n, p)

CalcFrame ==
    UNCHANGED <<kv, redis_up, yf, provider, now, pass, ret, obs, sent,
                completed, lp, hist, http, seen, tg, ep, tier, inv, cmd, srv, files>>

\* The batch scan evaluates the history.
RunCheckStockQuick ==
    /\ calc.cron = NotRun
    /\ calc' = [calc EXCEPT !.cron = check_stock_quick_on(hist)]
    /\ CalcFrame

\* The scan endpoint evaluates the history.
RunQuickCheckStock ==
    /\ calc.scan = NotRun
    /\ calc' = [calc EXCEPT !.scan = quick_check_stock(hist)]
    /\ CalcFrame

\* The /check command evaluates the history.
RunHandleCheck ==
    /\ calc.check = NotRun
    /\ calc' = [calc EXCEPT !.check = handle_check(hist)]
    /\ CalcFrame

CalcNext == RunCheckStockQuick \/ RunQuickCheckStock \/ RunHandleCheck

\* One price history, handed to each calculator once, in any order.
CalcSpec == CalcInit /\ [][CalcNext]_vars


\* ------------------------------------------- claims about the calculators
Slots == {"cron", "scan", "check"}

\* The calculator reports the symbol as qualifying: check_stock_quick
\* returned a result, quick_check_stock passes, handle_check passes_all.
Qualified(o) == o.kind \in {"result", "passes"}

\* The calculator got as far as the nine criteria.
Computed(o) == Len(o.criteria) = 9

AllNineTrue(o) == Computed(o) /\ \A i \in 1..9 : o.criteria[i] = "True"

\* C13: in each calculator the symbol qualifies if and only if all nine
\* criteria are true; with eight true and one false it does not qualify.
C13_QualifiesIffAllNine ==
    \A slot \in Slots : Qualified(calc[slot]) <=> AllNineTrue(calc[slot])

\* Both sides on one history: check_stock_quick and handle_check found eight
\* criteria true and the trend criterion false and did not qualify the
\* symbol; quick_check_stock found all nine true and did.
C13_Witness ==
    /\ calc.cron.score = 8 /\ calc.cron.criteria[4] = "False"
    /\ calc.cron.kind = "None"
    /\ calc.check.score = 8 /\ calc.check.criteria[4] = "False"
    /\ calc.check.kind = "fails"
    /\ calc.scan.score = 9 /\ calc.scan.kind = "passes"

\* C14: on a history of fewer than 222 bars no calculator reports the symbol
\* as qualifying.
C14_ShortHistoryNeverQualifies ==
    Len(hist) < TREND_MIN_BARS =>
        \A slot \in Slots : ~Qualified(calc[slot])

\* 221 bars on which every criterion but the trend is true: the batch
\* calculator compares with NaN, the other two leave criterion 4 undefined.
C14_Witness ==
    /\ Len(hist) = TREND_MIN_BARS - 1
    /\ calc.cron.kind = "None" /\ calc.cron.score = 8
    /\ calc.cron.criteria[4] = "False"
    /\ calc.scan.kind = "fails" /\ calc.scan.score = 8
    /\ calc.scan.criteria[4] = "None"
    /\ calc.check.kind = "fails" /\ calc.check.score = 8
    /\ calc.check.criteria[4] = "None"

\* The 200-bar average ending at the most recent bar is greater than the
\* 200-bar average ending 22 bars before it.
TrendUp(h) ==
    Gt(RollingMean(h, 200, Len(h)), RollingMean(h, 200, Len(h) - 22))

\* C15: on a history of at least 222 bars every calculator's criterion 4 is
\* true exactly when the 200-bar average at the most recent bar is greater
\* than the 200-bar average ending 22 bars before it, so the calculators agree.
C15_Original ==
    Len(hist) >= TREND_MIN_BARS =>
        \A slot \in Slots :
            Computed(calc[slot]) =>
                calc[slot].criteria[4] = Bool(TrendUp(hist))

\* C16: on a history of at least 222 well-formed bars quick_check_stock
\* gives a verdict in which each of the nine criteria is True or False.
C16_AllCriteriaBoolean ==
    (Len(hist) >= TREND_MIN_BARS /\ calc.scan # NotRun) =>
        /\ calc.scan.kind \in {"passes", "fails"}
        /\ Computed(calc.scan)
        /\ \A i \in 1..9 : calc.scan.criteria[i] \in {"True", "False"}

\* Exactly 222 bars, with criteria of both values in the verdict.
C16_Witness ==
    /\ Len(hist) = TREND_MIN_BARS
    /\ calc.scan.kind = "fails"
    /\ calc.scan.criteria[4] = "True"
    /\ calc.scan.criteria[7] = "False"

InsufficientBelow50 == {1, 2, 3, 5, 6, 7}

\* The verdict of a history too short for any average: criteria 1, 2, 3, 5, 6
\* and 7 are None, criteria 8 and 9 are computed.
ShortVerdict(o) ==
    /\ o.kind \in {"passes", "fails"}
    /\ Computed(o)
    /\ \A i \in InsufficientBelow50 : o.criteria[i] = "None"
    /\ \A i \in {8, 9} : o.criteria[i] \in {"True", "False"}

MaxPasses == 2

\* The store becomes unreachable, or reachable again (every redis call of
\* kv_get and kv_set then raises, which both catch: lines 90-92, 109-111).
StoreToggle ==
    /\ redis_up' = ~redis_up
    /\ UNCHANGED <<kv, yf, provider, now, pass, ret, obs, sent, completed>>
    /\ UNCHANGED <<lp, hist, calc, http>>
    /\ UNCHANGED aux

\* One key is gone from the store (deleted or evicted): r.get gives nothing.
KeyLost ==
    \E k \in Keys :
        /\ kv[k] # None
        /\ kv' = [kv EXCEPT ![k] = None]
        /\ UNCHANGED <<redis_up, yf, provider, now, pass, ret, obs, sent,
                       completed>>
        /\ UNCHANGED <<lp, hist, calc, http>>
        /\ UNCHANGED aux

StoreInit ==
    /\ Quiescent
    /\ provider = [s \in RealSymbols |-> "score9"]
    /\ Idle

\* A cron trigger, while fewer than MaxPasses passes have been completed.
StoreInvoke == pass < MaxPasses /\ Invoke

StoreNext == StoreInvoke \/ Tick \/ StoreToggle \/ KeyLost

\* Sequential invocations against a store that can fail and lose keys.
StoreSpec == StoreInit /\ [][StoreNext]_vars

\* C18: when the store is unreachable, or a key is absent, run_batch_scan
\* takes the zero value for what it could not load (offset 0, no results, no
\* last-complete timestamp and so no cooldown), and it returns a status, not
\* an error; with the store unreachable it scans from universe index 0 and
\* nothing is written.
C18_StoreFailureIsFreshStart ==
    [][\A budget \in 0..MaxBudget :
          (run_batch_scan(budget) /\ yf) =>
              /\ "status" \in DOMAIN ret'
              /\ (~redis_up \/ kv["scan_offset"] = None) => obs'.offset = 0
              /\ (~redis_up \/ kv["scan_results"] = None) =>
                     obs'.current_results = <<>>
              /\ (~redis_up \/ kv["last_scan_complete"] = None) =>
                     ret'.status # "waiting"
              /\ ~redis_up =>
                     /\ ret'.status \in {"partial_complete", "scan_complete"}
                     /\ \A i \in 1..Len(obs'.evaluated) :
                            obs'.evaluated[i] = i - 1
                     /\ kv' = kv
      ]_vars

\* An invocation ran while the store was unreachable: the store holds
\* offset 2 and a recent completion time, yet the invocation scanned one
\* symbol from index 0 and left the store as it was.
C18_Witness ==
    /\ kv["scan_offset"] = Some(2)
    /\ ret.status = "partial_complete"
    /\ obs.offset = 0
    /\ obs.evaluated = <<0>>
    /\ obs.loop_offset = 1


\* ----------------------------------------------------- the trigger handler
\* handler.do_GET (cron-scan.py lines 309-350).  A request carries the raw
\* query parameters offset and reset, each absent (None) or a string.
Numerals == <<"0", "1", "2", "3", "4", "5">>

\* Trigger requests after which no further request is made.
MaxRequests == 3

RawOffsets ==
    {None, Some(""), Some("abc")}
        \cup {Some(Numerals[i]) : i \in 1..(MaxStocks + 1)}
RawResets == {None, Some(""), Some("1")}

\* parse_qs keeps a parameter only if its value is not blank
\* (keep_blank_values is False), so query.get gives None for "offset=" and
\* 'reset' is not in the query for a bare "reset".
parse_qs(raw) == IF raw = None \/ raw = Some("") THEN None ELSE raw

\* The numerals with a minus sign, "-1" first.
Negatives == <<"-1", "-2", "-3", "-4", "-5", "-6">>

\* Variant: a string that is no numeral is read as 0.
int_Lenient(s) ==
    IF \E i \in DOMAIN Numerals : Numerals[i] = s
    THEN Some((CHOOSE i \in DOMAIN Numerals : Numerals[i] = s) - 1)
    ELSE IF \E i \in DOMAIN Negatives : Negatives[i] = s
    THEN Some(0 - (CHOOSE i \in DOMAIN Negatives : Negatives[i] = s))
    ELSE Some(0)

\* int(manual_offset): the number a numeral denotes, signed or not, None for
\* the ValueError any other string raises.
int(s) ==
    IF \E i \in DOMAIN Numerals : Numerals[i] = s
    THEN Some((CHOOSE i \in DOMAIN Numerals : Numerals[i] = s) - 1)
    ELSE IF \E i \in DOMAIN Negatives : Negatives[i] = s
    THEN Some(0 - (CHOOSE i \in DOMAIN Negatives : Negatives[i] = s))
    ELSE None

\* Variant: the reset is applied first and the offset override last.
ApplyOverrides_ResetFirst(st, manual_offset, reset) ==
    LET st1 == IF reset
               THEN kv_set(kv_set(st, "scan_offset", 0), "scan_results", <<>>)
               ELSE st
    IN  IF manual_offset # None
        THEN kv_set(st1, "scan_offset", manual_offset[1])
        ELSE st1

\* Lines 318-325: the offset override is written, then the reset.
ApplyOverrides(st, manual_offset, reset) ==
    LET st1 == IF manual_offset # None
               THEN kv_set(st, "scan_offset", manual_offset[1])
               ELSE st
    IN  IF reset
        THEN kv_set(kv_set(st1, "scan_offset", 0), "scan_results", <<>>)
        ELSE st1

\* do_GET up to the call of run_batch_scan (lines 313-325); http.requests
\* counts the requests received, as history.  When int()
\* raises, the except branch sends status 500 and the headers (lines 341-343)
\* and then itself fails on the undefined name KV_REST_API_URL (line 347), so
\* no body is written; nothing else has happened.
do_GET(rawOffset, rawReset) ==
    LET manual_offset == parse_qs(rawOffset)
        reset         == parse_qs(rawReset) # None
        parsed        == IF manual_offset = None THEN None
                         ELSE int(manual_offset[1])
    IN  /\ http.phase # "overrides"
        /\ http.requests < MaxRequests
        /\ IF manual_offset # None /\ parsed = None
           THEN /\ http' = [phase |-> "done", code |-> 500, body |-> FALSE,
                            manual_offset |-> None, reset |-> reset,
                            requests |-> http.requests + 1]
                /\ UNCHANGED kv
           ELSE /\ http' = [phase |-> "overrides", code |-> 0, body |-> FALSE,
                            manual_offset |-> parsed, reset |-> reset,
                            requests |-> http.requests + 1]
                /\ kv' = ApplyOverrides(kv, parsed, reset)
        /\ UNCHANGED <<redis_up, yf, provider, now, pass, ret, obs, sent,
                       completed, lp, hist, calc>>
        /\ UNCHANGED aux

\* A trigger request arrives.
Request == \E rawOffset \in RawOffsets, rawReset \in RawResets :
               do_GET(rawOffset, rawReset)

\* do_GET from the call of run_batch_scan on (lines 327-337): the batch runs
\* and its result is sent with status 200.  An exception of run_batch_scan
\* ends in the except branch as one of int() does: status 500, no body.
Respond ==
    /\ http.phase = "overrides"
    /\ \E budget \in 0..MaxBudget : run_batch_scan(budget)
    /\ http' = IF "raised" \in DOMAIN ret'
               THEN [http EXCEPT !.phase = "done", !.code = 500,
                                 !.body = FALSE]
               ELSE [http EXCEPT !.phase = "done", !.code = 200,
                                 !.body = TRUE]
    /\ UNCHANGED aux

HandlerInit ==
    /\ Quiescent
    /\ provider = [s \in RealSymbols |-> "score9"]
    /\ Idle

HandlerNext == Request \/ Respond \/ Tick

\* Trigger requests, one at a time, with their query parameters.
HandlerSpec == HandlerInit /\ [][HandlerNext]_vars

\* C19: a reset request leaves scan_offset = 0 and scan_results = [] and an
\* offset=k request leaves scan_offset = k in the store before run_batch_scan
\* loads it; with both given the reset wins, and the run_batch_scan that
\* follows loads offset 0 and no results.
C19_OverridesBeforeLoad ==
    /\ http.phase = "overrides" =>
           /\ http.reset =>
                  /\ kv["scan_offset"] = Some(0)
                  /\ kv["scan_results"] = Some(<<>>)
           /\ (~http.reset /\ http.manual_offset # None) =>
                  kv["scan_offset"] = http.manual_offset
    /\ (http.phase = "done" /\ http.code = 200) =>
           /\ http.reset =>
                  /\ obs.offset = 0
                  /\ obs.current_results = <<>>
                  /\ \A i \in 1..Len(obs.evaluated) : obs.evaluated[i] = i - 1
           /\ (~http.reset /\ http.manual_offset # None) =>
                  obs.offset = http.manual_offset[1]

\* A request with offset=2 and reset: the batch that followed started at
\* index 0 with no results.
C19_Witness ==
    /\ http.phase = "done" /\ http.code = 200
    /\ http.reset /\ http.manual_offset = Some(2)
    /\ obs.offset = 0 /\ obs.current_results = <<>>
    /\ obs.evaluated = <<0, 1>>
    /\ ret.status = "partial_complete"

\* The offset parameter is there and is no numeral.
NonNumeric(rawOffset) ==
    /\ rawOffset \notin {None, Some("")}
    /\ \A i \in DOMAIN Numerals : rawOffset # Some(Numerals[i])

\* C20: a request whose offset override is not numeric is answered with an
\* error status; the three keys are left as they were and no symbol is
\* evaluated (run_batch_scan is not called).
C20_NonNumericOffsetRejected ==
    [][\A rawOffset \in RawOffsets, rawReset \in RawResets :
          (do_GET(rawOffset, rawReset) /\ NonNumeric(rawOffset)) =>
              /\ http'.phase = "done"
              /\ http'.code >= 400
              /\ kv' = kv
              /\ UNCHANGED <<ret, obs, sent, pass, completed>>
      ]_vars

\* A pass is under way at offset 1 and the last request was rejected.
C20_Witness ==
    /\ http.phase = "done" /\ http.code = 500
    /\ kv["scan_offset"] = Some(1)
    /\ ret.status = "partial_complete"
    /\ obs.evaluated = <<0>>


\* ------------------------------------------------ the returned outcome
\* An invocation has returned.
Returned == ret # [status |-> "none"]

CountFields ==
    {"processed", "found_in_batch", "found_total", "next_offset", "total"}

\* C21, as claimed: every outcome returned by run_batch_scan carries a status
\* among waiting, partial_complete and scan_complete, and every non-waiting
\* outcome carries the five counts.
C21_Original ==
    Returned =>
        /\ "status" \in DOMAIN ret
        /\ ret.status \in {"waiting", "partial_complete", "scan_complete"}
        /\ ret.status # "waiting" => CountFields \subseteq DOMAIN ret

\* C21, amended: when yfinance is importable, every outcome carries a status
\* among waiting, partial_complete and scan_complete and every non-waiting
\* outcome carries the five counts; when it is not, the outcome is the error
\* dict of line 213, with no status and no count.
C21_OutcomeShape ==
    Returned =>
        IF yf
        THEN /\ "status" \in DOMAIN ret
             /\ ret.status \in {"waiting", "partial_complete", "scan_complete"}
             /\ ret.status # "waiting" =>
                    /\ CountFields \subseteq DOMAIN ret
                    /\ ret.processed = Len(obs.evaluated)
                    /\ ret.found_in_batch = Len(obs.new_results)
                    /\ ret.found_total =
                           Len(obs.current_results) + Len(obs.new_results)
                    /\ ret.total = Len(get_all_stocks)
                    /\ ret.next_offset \in 0..(ret.total - 1)
        ELSE DOMAIN ret = {"error"}

\* A partial batch of two symbols with one hit has returned.
C21_Witness ==
    /\ Returned /\ yf
    /\ ret.status = "partial_complete"
    /\ ret.processed = 2
    /\ ret.found_in_batch = 1
    /\ ret.next_offset = 2


\* ------------------------------------------------- the indices of a pass
\* A cron trigger, with the history of the pass kept: an invocation that
\* scans from offset 0 begins a pass, and every index whose iteration ran is
\* added in the order the loop took it.
TrackedInvoke ==
    /\ \E budget \in 0..MaxBudget : run_batch_scan(budget)
    /\ seen' = IF "status" \in DOMAIN ret'
                  /\ ret'.status \in {"partial_complete", "scan_complete"}
               THEN (IF obs'.offset = 0 THEN <<>> ELSE seen) \o obs'.evaluated
               ELSE seen
    /\ UNCHANGED <<http, tg, ep, tier, inv, cmd, srv, files>>

PassNext == TrackedInvoke \/ Tick \/ ProviderUpdate

\* Sequential invocations with no manual override, the pass history kept.
PassSpec == Init /\ [][PassNext]_vars

\* C29: in a pass run by sequential invocations without manual overrides the
\* loop takes the universe indices in order, none skipped and none twice, and
\* by the scan_complete outcome it has taken every index 0..total-1 once.
C29_EachIndexOnce ==
    /\ \A i \in 1..Len(seen) : seen[i] = i - 1
    /\ (Returned /\ StatusOf(ret) = "scan_complete") =>
           Len(seen) = Len(get_all_stocks)

\* A pass that took three invocations, one index each, has just ended.
C29_Witness ==
    /\ StatusOf(ret) = "scan_complete"
    /\ seen = <<0, 1, 2>>
    /\ obs.offset = 2
    /\ obs.evaluated = <<2>>
    /\ PersistedOffset = 0


\* --------------------------------------------------- the end-of-cycle report
\* Most results a completed pass has accumulated.
MaxReport == 17

\* n results, for the symbols from position first on.
ResultsFrom(first, n) ==
    [i \in 1..n |-> [symbol |-> HardCodedStocks[first + i - 1], pass |-> 0]]

\* A pass is about to complete: the loop has ended with current_results and
\* new_results as in obs, n results in all.
ReportInit ==
    /\ kv = [k \in Keys |-> None]
    /\ redis_up = TRUE /\ yf = TRUE
    /\ now = 0 /\ pass = 0
    /\ ret = [status |-> "none"]
    /\ sent = <<>> /\ completed = FALSE
    /\ provider = [s \in RealSymbols |-> "score9"]
    /\ Idle
    /\ \E n \in 0..MaxReport, first \in 1..3, cut \in 0..MaxReport :
           /\ cut <= n
           /\ obs = [NoObs EXCEPT
                        !.current_results = ResultsFrom(first, cut),
                        !.new_results = ResultsFrom(first + cut, n - cut)]

\* Lines 264 and 273-289: the results are merged and the report is built and
\* handed to send_telegram.
SendReport ==
    /\ ~completed
    /\ completed' = TRUE
    /\ sent' = <<FormatReport(MergeResults(obs.current_results,
                                           obs.new_results),
                              Len(get_all_stocks))>>
    /\ UNCHANGED <<kv, redis_up, yf, provider, now, pass, ret, obs>>
    /\ UNCHANGED <<lp, hist, calc, http>>
    /\ UNCHANGED aux

ReportSpec == ReportInit /\ [][SendReport]_vars

\* C25: the report lists the first min(n, 15) of the n accumulated results in
\* accumulation order, has the overflow line exactly when n > 15, with
\* K = n - 15, and is the no-matches message exactly when n = 0.
C25_ReportShape ==
    sent # <<>> =>
        LET all == obs.current_results \o obs.new_results
            n   == Len(all)
            msg == sent[1]
        IN  /\ msg.kind = "no_matches" <=> n = 0
            /\ n > 0 =>
                   /\ msg.kind = "scan_complete"
                   /\ msg.found = n
                   /\ Len(msg.listed) = (IF n < 15 THEN n ELSE 15)
                   /\ \A i \in 1..Len(msg.listed) :
                          msg.listed[i] = all[i].symbol
                   /\ msg.more > 0 <=> n > 15
                   /\ n > 15 => msg.more = n - 15

\* Seventeen results, nine of them from earlier batches: fifteen listed and
\* "...and 2 more".
C25_Witness ==
    /\ sent # <<>>
    /\ Len(obs.current_results) = 9 /\ Len(obs.new_results) = 8
    /\ Len(sent[1].listed) = 15
    /\ sent[1].listed[10] = obs.new_results[1].symbol
    /\ sent[1].more = 2


\* ------------------------------------------------------------ send_telegram
\* Entries of CHAT_IDS, at most.
MaxRecipients == 3

\* What an entry of TELEGRAM_CHAT_IDS.split(',') can be: blank, blanks only,
\* a chat id, a chat id with a blank before it.
ChatIdEntries == {"", " ", "42", " 43"}

\* chat_id.strip().
strip(chat_id) ==
    IF chat_id = " " THEN ""
    ELSE IF chat_id = " 43" THEN "43"
    ELSE chat_id

\* How the Bot API call for one recipient ends: the response says ok, the
\* response says not ok, or requests.post / response.json() raises.
Answers == {"ok", "not_ok", "raise"}

\* Variant: the first call that raises ends the loop.
RECURSIVE SendLoop_StopsOnRaise(_, _, _, _)
SendLoop_StopsOnRaise(chat_ids, answer, i, acc) ==
    IF i > Len(chat_ids) THEN acc
    ELSE IF strip(chat_ids[i]) = ""
         THEN SendLoop_StopsOnRaise(chat_ids, answer, i + 1, acc)
    ELSE IF answer[i] = "raise"
         THEN [acc EXCEPT !.posts = Append(@, i)]
    ELSE SendLoop_StopsOnRaise(chat_ids, answer, i + 1,
             [posts   |-> Append(acc.posts, i),
              success |-> acc.success \/ answer[i] = "ok"])

\* The loop of lines 54-70 from entry i on: a blank entry is passed over, any
\* other is posted to; success becomes True on an ok response, and an
\* exception is swallowed by the bare except.  posts is the history of the
\* entries posted to.
RECURSIVE SendLoop(_, _, _, _)
SendLoop(chat_ids, answer, i, acc) ==
    IF i > Len(chat_ids) THEN acc
    ELSE IF strip(chat_ids[i]) = ""
         THEN SendLoop(chat_ids, answer, i + 1, acc)
    ELSE SendLoop(chat_ids, answer, i + 1,
             [posts   |-> Append(acc.posts, i),
              success |-> acc.success \/ answer[i] = "ok"])

\* send_telegram(message) with CHAT_IDS and the recipients' answers of tg.
send_telegram ==
    SendLoop(tg.chat_ids, tg.answer, 1, [posts |-> <<>>, success |-> FALSE])

TelegramInit ==
    /\ Quiescent
    /\ provider = [s \in RealSymbols |-> "score9"]
    /\ lp = LpIdle /\ hist = <<>> /\ calc = NoCalc /\ http = NoHttp
    /\ seen = <<>> /\ ep = NoEp /\ tier = TiersUp /\ inv = NoInv
    /\ ExtIdle
    /\ \E n \in 0..MaxRecipients :
       \E ids \in [1..n -> ChatIdEntries], ans \in [1..n -> Answers] :
           tg = [chat_ids |-> ids, answer |-> ans, posts |-> <<>>,
                 returned |-> "none"]

\* One call of send_telegram.
SendTelegram ==
    /\ tg.returned = "none"
    /\ tg' = [tg EXCEPT !.posts = send_telegram.posts,
                        !.returned = Bool(send_telegram.success)]
    /\ UNCHANGED <<kv, redis_up, yf, provider, now, pass, ret, obs, sent,
                   completed, lp, hist, calc, http, seen, ep, tier, inv, cmd, srv, files>>

TelegramSpec == TelegramInit /\ [][SendTelegram]_vars

\* C26: send_telegram posts once to every non-blank entry of CHAT_IDS, in
\* order, whatever happened with the entries before it, and returns True
\* exactly when at least one post was answered ok.
C26_EveryRecipientTried ==
    tg.returned # "none" =>
        /\ \A i \in 1..Len(tg.chat_ids) :
               (tg.chat_ids[i] \notin {"", " "}) <=>
                   (\E j \in 1..Len(tg.posts) : tg.posts[j] = i)
        /\ \A j, k \in 1..Len(tg.posts) : j < k => tg.posts[j] < tg.posts[k]
        /\ tg.returned = "True" <=>
               \E j \in 1..Len(tg.posts) : tg.answer[tg.posts[j]] = "ok"

\* The first recipient's call raised, the second entry is blank, the third
\* recipient was still posted to and acknowledged.
C26_Witness ==
    /\ tg.returned = "True"
    /\ Len(tg.chat_ids) = 3
    /\ tg.answer[1] = "raise" /\ tg.chat_ids[2] = " "
    /\ tg.answer[3] = "ok"
    /\ tg.posts = <<1, 3>>


\* ------------------------------------------- a batch and its notifications
\* Two recipients are configured; how each answers is the environment's.
DeliverInit ==
    /\ Quiescent
    /\ provider \in [RealSymbols -> {"score9", "low"}]
    /\ lp = LpIdle /\ hist = <<>> /\ calc = NoCalc /\ http = NoHttp
    /\ seen = <<>> /\ ep = NoEp /\ tier = TiersUp /\ inv = NoInv
    /\ ExtIdle
    /\ \E ans \in [1..2 -> Answers] :
           tg = [chat_ids |-> <<"42", " 43">>, answer |-> ans,
                 posts |-> <<>>, returned |-> "none"]

\* A cron trigger: run_batch_scan, whose call of send_telegram (lines 286 and
\* 289) posts to the recipients; run_batch_scan does not read what
\* send_telegram returns.
DeliverInvoke ==
    /\ \E budget \in 0..MaxBudget : run_batch_scan(budget)
    /\ tg' = IF sent' # <<>>
             THEN [tg EXCEPT !.posts = send_telegram.posts,
                             !.returned = Bool(send_telegram.success)]
             ELSE [tg EXCEPT !.posts = <<>>, !.returned = "none"]
    /\ UNCHANGED <<http, seen, ep, tier, inv, cmd, srv, files>>

\* A recipient starts or stops answering as before.
AnswerChange ==
    /\ \E i \in 1..Len(tg.chat_ids), a \in Answers :
           /\ a # tg.answer[i]
           /\ tg' = [tg EXCEPT !.answer[i] = a]
    /\ UNCHANGED <<kv, redis_up, yf, provider, now, pass, ret, obs, sent,
                   completed, lp, hist, calc, http, seen, ep, tier, inv, cmd, srv, files>>

DeliverNext == DeliverInvoke \/ Tick \/ AnswerChange

DeliverSpec == DeliverInit /\ [][DeliverNext]_vars

\* No recipient acknowledges.
AllDeliveriesFail ==
    \A i \in 1..Len(tg.chat_ids) : tg.answer[i] # "ok"

\* C27: when the invocation that ends the pass cannot deliver the report to
\* any recipient, it has still posted to each of them, persists
\* scan_offset = 0, last_scan_complete and the merged results, and returns
\* scan_complete.
C27_DeliveryFailureKeepsCompletion ==
    [][\A budget \in 0..MaxBudget :
          (/\ run_batch_scan(budget)
           /\ AllDeliveriesFail
           /\ "status" \in DOMAIN ret' /\ ret'.status # "waiting"
           /\ obs'.loop_offset >= Len(get_all_stocks)) =>
              /\ ret'.status = "scan_complete"
              /\ Len(sent') = 1
              /\ tg'.posts = <<1, 2>> /\ tg'.returned = "False"
              /\ kv'["scan_offset"] = Some(0)
              /\ kv'["last_scan_complete"] = Some(now)
              /\ kv'["scan_results"] =
                     Some(obs'.current_results \o obs'.new_results)
      ]_vars

\* A pass with two results ended while one recipient's call raised and the
\* other answered not ok.
C27_Witness ==
    /\ StatusOf(ret) = "scan_complete"
    /\ tg.answer = <<"raise", "not_ok">>
    /\ tg.posts = <<1, 2>> /\ tg.returned = "False"
    /\ kv["scan_offset"] = Some(0)
    /\ kv["last_scan_complete"] = Some(now)
    /\ Len(PersistedResults) = 2

\* ------------------------------------------- the scan endpoint (scan.py)
\* The longest symbols parameter of a request, in entries.
MaxSymbols == 11

\* "symbols = symbols[:10]" (scan.py line 112).
SCAN_LIMIT == 10

\* The default of the symbols parameter (scan.py line 108).
DefaultSymbols == <<"RELIANCE", "TCS", "INFY", "HDFCBANK", "ICICIBANK">>

EpNames == {DefaultSymbols[i] : i \in 1..Len(DefaultSymbols)}

\* The entries between the commas of the symbols parameter.
SymbolEntries == {"", " ", " tcs", "RELIANCE"}

\* symbol.strip().upper() (scan.py line 118).
strip_upper(entry) ==
    IF entry = " " THEN ""
    ELSE IF entry = " tcs" THEN "TCS"
    ELSE entry

\* The notify parameter as sent: absent, or its text.
NotifyRaw == {<<>>, <<"true">>, <<"TRUE">>, <<"false">>, <<"1">>}

\* str.lower() on the texts of NotifyRaw.
lower(text) == IF text = "TRUE" THEN "true" ELSE text

\* "query.get('notify', ['false'])[0].lower() == 'true'" (scan.py line 109).
NotifyFlag(raw) ==
    lower(IF raw = <<>> THEN "false" ELSE raw[1]) = "true"

\* "query.get('symbols', [default])[0].split(',')" (scan.py line 108);
\* parse_qs leaves a blank parameter out, so the default stands for it too.
SplitSymbols(entries) ==
    IF entries = <<>> \/ entries = <<"">> THEN DefaultSymbols ELSE entries

\* Variant: no limit on the symbols of a request.
Limit_None(symbols) == symbols

\* "symbols[:10]" (scan.py line 112).
Limit(symbols) == SubSeq(symbols, 1, Min(Len(symbols), SCAN_LIMIT))

\* The year of prices the provider has for a symbol of the endpoint: a rising
\* year that meets all nine criteria, a flat year, or none.
Quote(response) ==
    IF response = "score9"
    THEN History(TREND_MIN_BARS,
                 [last |-> 200, d22 |-> 200, recent |-> 160, mid |-> 120,
                  old |-> 100, oldest |-> 100])
    ELSE IF response = "low"
    THEN History(TREND_MIN_BARS,
                 [last |-> 100, d22 |-> 100, recent |-> 100, mid |-> 100,
                  old |-> 100, oldest |-> 100])
    ELSE <<>>

\* quick_check_stock for a symbol (scan.py lines 39-96): an exception of the
\* provider ends in the error verdict of lines 95-96.
VerdictOnRise == quick_check_stock(Quote("score9"))
VerdictOnFlat == quick_check_stock(Quote("low"))
VerdictOnNone == quick_check_stock(Quote("short"))

Verdict(symbol) ==
    LET o == IF provider[symbol] = "raise" THEN Outcome("error", <<>>)
             ELSE IF provider[symbol] = "score9" THEN VerdictOnRise
             ELSE IF provider[symbol] = "low" THEN VerdictOnFlat
             ELSE VerdictOnNone
    IN  [symbol |-> symbol, kind |-> o.kind, score |-> o.score]

\* The loop of scan.py lines 117-123 over the entries from position i on:
\* blank entries are passed over, every other one gets a verdict.
RECURSIVE CheckLoop(_, _, _)
CheckLoop(symbols, verdict, i) ==
    IF i > Len(symbols) THEN <<>>
    ELSE LET symbol == strip_upper(symbols[i])
         IN  (IF symbol # "" THEN <<verdict[symbol]>> ELSE <<>>)
                 \o CheckLoop(symbols, verdict, i + 1)

\* "if result.get('passes'): passing.append(result)" (scan.py lines 122-123).
Passing(results) == SelectSeq(results, LAMBDA r : r.kind = "passes")

\* Variant: the message is sent whenever notify is asked for.
ShouldNotify_Always(notify, passing) == notify

\* "if notify and passing" (scan.py line 126).
ShouldNotify(notify, passing) == notify /\ passing # <<>>

\* The recipients the message is posted to (scan.py lines 134-136).
Recipients(chat_ids) ==
    LET kept == SelectSeq(chat_ids, LAMBDA c : strip(c) # "")
    IN  [i \in 1..Len(kept) |-> strip(kept[i])]

\* What the store can hold when a request arrives: nothing yet, or the
\* state saved in the middle of a pass.
StoredStates ==
    {[k \in Keys |-> None],
     [scan_offset |-> Some(1), scan_results |-> Some(<<"RELIANCE">>),
      last_scan_complete |-> None],
     [scan_offset |-> Some(0), scan_results |-> Some(<<"RELIANCE">>),
      last_scan_complete |-> Some(0)]}

EpInit ==
    /\ kv \in StoredStates
    /\ redis_up = TRUE /\ yf = TRUE /\ now = 0 /\ pass = 0
    /\ ret = [status |-> "none"] /\ obs = NoObs /\ sent = <<>>
    /\ completed = FALSE
    /\ \E r, t \in Responses :
           provider = [s \in EpNames |->
                          IF s = "RELIANCE" THEN r
                          ELSE IF s = "TCS" THEN t ELSE "low"]
    /\ lp = LpIdle /\ hist = <<>> /\ calc = NoCalc /\ http = NoHttp
    /\ seen = <<>> /\ tg = NoTg /\ tier = TiersUp /\ inv = NoInv
    /\ ExtIdle
    /\ \E ids \in {<<"">>, <<"42", " ", " 43">>} :
           ep = [NoEp EXCEPT !.chat_ids = ids]

\* handler.do_GET of scan.py (lines 102-150) for one request: the symbols
\* parameter is n entries repeating a pattern of two.
ScanRequest ==
    /\ ep.phase = "idle"
    /\ \E n \in 0..MaxSymbols, pattern \in [0..1 -> SymbolEntries],
          raw \in NotifyRaw :
           LET entries == [i \in 1..n |-> pattern[i % 2]]
               symbols == Limit(SplitSymbols(entries))
               notify  == NotifyFlag(raw)
               verdict == [s \in EpNames |-> Verdict(s)]
               results == CheckLoop(symbols, verdict, 1)
               passing == Passing(results)
           IN  ep' = [ep EXCEPT
                         !.phase = "done", !.code = 200,
                         !.symbols = entries, !.notify = notify,
                         !.results = results, !.passing = passing,
                         !.posts = IF ShouldNotify(notify, passing)
                                   THEN Recipients(ep.chat_ids) ELSE <<>>]
    /\ UNCHANGED <<kv, redis_up, yf, provider, now, pass, ret, obs, sent,
                   completed, lp, hist, calc, http, seen, tg, tier, inv, cmd, srv, files>>

\* The endpoint with a store left by the batch scan.
EpSpec == EpInit /\ [][ScanRequest]_vars

\* The non-blank symbols among the first SCAN_LIMIT entries of the request.
Evaluated ==
    LET symbols == SplitSymbols(ep.symbols)
        head    == SubSeq(symbols, 1, Min(Len(symbols), SCAN_LIMIT))
        named   == SelectSeq(head, LAMBDA e : strip_upper(e) # "")
    IN  [i \in 1..Len(named) |-> strip_upper(named[i])]

\* A step in which the endpoint answers a request.
Answered == ep.phase = "idle" /\ ep'.phase = "done"

\* C28: a request to the scan endpoint evaluates at most 10 symbols, leaves
\* scan_offset, scan_results and last_scan_complete as they were, returns one
\* verdict for each evaluated symbol, the passing ones being among them, and
\* posts a message only if notify is true and some symbol passes.
C28_EndpointFrame ==
    [][Answered =>
          /\ Len(ep'.results) <= SCAN_LIMIT
          /\ \A k \in Keys : kv'[k] = kv[k]
          /\ [i \in 1..Len(ep'.results) |-> ep'.results[i].symbol] = Evaluated'
          /\ \A i \in 1..Len(ep'.passing) :
                 \E j \in 1..Len(ep'.results) :
                     ep'.results[j] = ep'.passing[i]
          /\ (ep'.posts # <<>> => ep'.notify /\ ep'.passing # <<>>)]_vars

\* A request of eleven symbols with notify set: ten verdicts, some passing and
\* some not, the message posted, the store as the batch scan left it.
C28_Witness ==
    /\ ep.phase = "done"
    /\ Len(ep.symbols) = MaxSymbols
    /\ Len(ep.results) = SCAN_LIMIT
    /\ ep.passing # <<>> /\ Len(ep.passing) < Len(ep.results)
    /\ ep.posts = <<"42", "43">>
    /\ kv["scan_offset"] = Some(1)

\* ------------------------------------------------- the universe and its tiers
\* Every symbol some tier can supply.
AllSymbols ==
    RealSymbols \cup {MidList[i] : i \in 1..Len(MidList)}
                \cup {HardCodedStocks[i] : i \in 1..Len(HardCodedStocks)}

\* What the two list loaders can do when get_all_stocks calls them.
FullStates == {"ok", "short", "empty", "raise"}
MidStates == {"ok", "empty", "raise"}

UniverseInit ==
    /\ Quiescent
    /\ provider = [s \in AllSymbols |->
                      IF s \in {"TCS", "INFY"} THEN "score9" ELSE "low"]
    /\ lp = LpIdle /\ hist = <<>> /\ calc = NoCalc /\ http = NoHttp
    /\ seen = <<>> /\ tg = NoTg /\ ep = NoEp /\ inv = NoInv
    /\ ExtIdle
    /\ tier = TiersUp

\* A cron trigger: run_batch_scan computes the universe anew (line 220); an
\* invocation that loads offset 0 is the first of its pass.
UniverseInvoke ==
    /\ \E budget \in 0..MaxBudget : run_batch_scan(budget)
    /\ tier' = IF ~yf THEN tier
               ELSE [tier EXCEPT !.saw =
                        (IF LoadOffset = 0 THEN {} ELSE tier.saw)
                            \cup {get_all_stocks}]
    /\ UNCHANGED <<http, seen, tg, ep, inv, cmd, srv, files>>

\* Between invocations a list file appears, disappears or changes.
TierChange ==
    /\ \E f \in FullStates, m \in MidStates :
           tier' = [tier EXCEPT !.full = f, !.mid = m]
    /\ tier' # tier
    /\ UNCHANGED <<kv, redis_up, yf, provider, now, pass, ret, obs, sent,
                   completed, lp, hist, calc, http, seen, tg, ep, inv, cmd, srv, files>>

UniverseNext == UniverseInvoke \/ TierChange

\* Sequential invocations while the universe tiers come and go.
UniverseSpec == UniverseInit /\ [][UniverseNext]_vars

\* C23 as stated: get_all_stocks returns a non-empty sequence whatever the
\* tiers do, a tier that raises or returns the empty list included.
C23_Original == get_all_stocks # <<>>

\* C24 as stated: all invocations of one pass compute the same universe, also
\* when a tier's availability changes between them.
C24_Original == Cardinality(tier.saw) <= 1

\* ------------------------------------------- offset overrides of any integer
\* The largest offset override a request carries, in absolute value.
MaxOverride == 4

RawOverrides ==
    {None} \cup {Some(Numerals[i]) : i \in 1..(MaxOverride + 1)}
           \cup {Some(Negatives[i]) : i \in 1..MaxOverride}

\* A trigger request with or without an offset override.
OverrideRequest == \E rawOffset \in RawOverrides : do_GET(rawOffset, None)

OverrideNext == OverrideRequest \/ Respond

\* Trigger requests, one at a time, whose offset is any integer.
OverrideSpec == HandlerInit /\ [][OverrideNext]_vars

\* C30 as stated: after any trigger request, whatever integer its offset
\* override is, the persisted scan_offset lies in 0..total-1 and every index
\* the loop read lies in 0..total-1.
C30_Original ==
    http.phase = "done" =>
        /\ PersistedOffset \in 0..(Total - 1)
        /\ \A i \in 1..Len(obs.evaluated) :
               obs.evaluated[i] \in 0..(Total - 1)

\* ------------------------------------------------- overlapping invocations
\* Two invocations of run_batch_scan run at once (two cron triggers, or a
\* cron trigger and a manual one).  Each call of kv_get and kv_set is one
\* step on the store; what an invocation holds between its steps is in inv.
Invocations == {1, 2}

IdleInvocation ==
    [pc |-> "start", offset |-> 0, current_results |-> <<>>,
     all_results |-> <<>>, is_complete |-> FALSE, status |-> "none"]

ConcFrame ==
    UNCHANGED <<redis_up, yf, provider, now, pass, ret, obs, completed,
                lp, hist, calc, http, seen, tg, ep, tier, cmd, srv, files>>

\* "offset = kv_get('scan_offset') or 0" (lines 216-218).
ReadOffset(p) ==
    /\ inv[p].pc = "start"
    /\ inv' = [inv EXCEPT ![p].pc = "offset_read", ![p].offset = LoadOffset]
    /\ UNCHANGED <<kv, sent>> /\ ConcFrame

\* "current_results = kv_get('scan_results') or []" (lines 224-226).
ReadResults(p) ==
    /\ inv[p].pc = "offset_read"
    /\ inv' = [inv EXCEPT ![p].pc = "results_read",
                          ![p].current_results = LoadResults]
    /\ UNCHANGED <<kv, sent>> /\ ConcFrame

\* Lines 229-267: the cooldown test, the loop and the merge, none of which
\* writes to the store.
RunLoop(p) ==
    /\ inv[p].pc = "results_read"
    /\ \E budget \in 0..MaxBudget :
           LET total           == Len(get_all_stocks)
               offset0         == inv[p].offset
               current_results == StartResults(offset0,
                                               inv[p].current_results)
               l               == ScanLoop(budget, total, LoopStart(offset0))
               is_complete     == IsComplete(l.offset, total)
           IN  inv' = IF CooldownActive(offset0)
                      THEN [inv EXCEPT ![p].pc = "returned",
                                       ![p].status = "waiting"]
                      ELSE [inv EXCEPT
                               ![p].pc = IF is_complete THEN "complete"
                                         ELSE "merged",
                               ![p].offset = FinalOffset(l.offset,
                                                         is_complete),
                               ![p].all_results =
                                   MergeResults(current_results,
                                                l.new_results),
                               ![p].is_complete = is_complete]
    /\ UNCHANGED <<kv, sent>> /\ ConcFrame

\* "kv_set('last_scan_complete', ...)" and the report (lines 271-289); sent
\* holds every report sent so far.
MarkComplete(p) ==
    /\ inv[p].pc = "complete"
    /\ kv' = kv_set(kv, "last_scan_complete", now)
    /\ sent' = Append(sent, FormatReport(inv[p].all_results,
                                         Len(get_all_stocks)))
    /\ inv' = [inv EXCEPT ![p].pc = "merged"]
    /\ ConcFrame

\* "kv_set('scan_offset', offset)" (line 292).
WriteOffset(p) ==
    /\ inv[p].pc = "merged"
    /\ kv' = kv_set(kv, "scan_offset", inv[p].offset)
    /\ inv' = [inv EXCEPT ![p].pc = "offset_written"]
    /\ UNCHANGED sent /\ ConcFrame

\* "kv_set('scan_results', all_results)" (line 293) and the return.
WriteResults(p) ==
    /\ inv[p].pc = "offset_written"
    /\ kv' = kv_set(kv, "scan_results", inv[p].all_results)
    /\ inv' = [inv EXCEPT ![p].pc = "returned",
                          ![p].status = Status(inv[p].is_complete)]
    /\ UNCHANGED sent /\ ConcFrame

ConcInit ==
    /\ Quiescent
    /\ provider \in [RealSymbols -> {"score9", "low"}]
    /\ lp = LpIdle /\ hist = <<>> /\ calc = NoCalc /\ http = NoHttp
    /\ seen = <<>> /\ tg = NoTg /\ ep = NoEp /\ tier = TiersUp
    /\ ExtIdle
    /\ inv = [p \in Invocations |-> IdleInvocation]

ConcNext ==
    \E p \in Invocations :
        \/ ReadOffset(p)
        \/ ReadResults(p)
        \/ RunLoop(p)
        \/ MarkComplete(p)
        \/ WriteOffset(p)
        \/ WriteResults(p)

\* Two invocations on one store, their steps interleaved in any order.
ConcSpec == ConcInit /\ [][ConcNext]_vars

BothReturned == \A p \in Invocations : inv[p].pc = "returned"

\* The invocation wrote the pair the store holds.
WrotePersistedPair(p) ==
    /\ inv[p].status \in {"partial_complete", "scan_complete"}
    /\ kv["scan_offset"] = Some(inv[p].offset)
    /\ kv["scan_results"] = Some(inv[p].all_results)

\* The qualifying symbols below the persisted offset, all of them when the
\* pass has completed.
QualifyingBelowOffset ==
    LET Hit(s) == s # "" /\ provider[s] = "score9"
        k      == IF kv["last_scan_complete"] # None /\ PersistedOffset = 0
                  THEN Total ELSE PersistedOffset
    IN  SelectSeq(SubSeq(get_all_stocks, 1, k), Hit)

\* C22 as stated: when two overlapping invocations have both finished, the
\* store holds the (scan_offset, scan_results) pair one of them wrote, and
\* the results are exactly the qualifying symbols below the offset.
C22_Original ==
    BothReturned =>
        /\ \E p \in Invocations : WrotePersistedPair(p)
        /\ Symbols(PersistedResults) = QualifyingBelowOffset

\* ------------------------------------------------ results of the current pass
\* The number of the pass the last invocation worked on: pass counts the
\* completed passes, so a completing invocation worked on pass - 1.
PassOfLastInvocation == IF completed THEN pass - 1 ELSE pass

\* C31 as stated: after an invocation that scanned, every persisted result
\* and every reported result was produced in the pass that invocation worked
\* on, also when a non-zero offset override follows a completed pass.
C31_Original ==
    (http.phase = "done" /\ Scanned(ret)) =>
        /\ \A i \in 1..Len(PersistedResults) :
               PersistedResults[i].pass = PassOfLastInvocation
        /\ sent # <<>> =>
               /\ \A i \in 1..Len(obs.current_results) :
                      obs.current_results[i].pass = PassOfLastInvocation
               /\ sent[1].kind = "scan_complete" =>
                      sent[1].found =
                          Len(obs.current_results) + Len(obs.new_results)

\* --------------------------------------------------- a store that never answers
\* REDIS_URL is unset or the server is down for good.
OutageInit ==
    /\ kv = [k \in Keys |-> None]
    /\ redis_up = FALSE
    /\ yf = TRUE
    /\ provider \in [RealSymbols -> Responses]
    /\ now = 0 /\ pass = 0
    /\ ret = [status |-> "none"] /\ obs = NoObs /\ sent = <<>>
    /\ completed = FALSE
    /\ Idle

\* A cron trigger whose time budget is spent before the universe is through.
OutageInvoke ==
    /\ \E budget \in 0..(Len(get_all_stocks) - 1) : run_batch_scan(budget)
    /\ UNCHANGED http
    /\ UNCHANGED aux

OutageNext == OutageInvoke \/ Tick \/ ProviderUpdate

\* Invocations keep coming while the store stays unavailable.
OutageSpec == OutageInit /\ [][OutageNext]_vars /\ WF_vars(OutageInvoke)

\* C32 as stated: with the store unavailable on every invocation and a
\* universe larger than one invocation can evaluate, repeated invocations
\* eventually return scan_complete.
C32_Original == <>(StatusOf(ret) = "scan_complete")

\* -------------------------------------- an overlap and the rest of the pass
\* The store when the two invocations start: empty, or the progress a first
\* invocation saved after evaluating one symbol.
RaceStore ==
    /\ redis_up = TRUE /\ yf = TRUE /\ now = 0 /\ pass = 0
    /\ ret = [status |-> "none"] /\ obs = NoObs /\ sent = <<>>
    /\ completed = FALSE
    /\ provider \in [RealSymbols -> {"score9", "low"}]
    /\ \E o \in {None, Some(1)} :
           kv = [k \in Keys |->
                   IF k = "scan_offset" THEN o
                   ELSE IF k = "last_scan_complete" \/ o = None THEN None
                   ELSE Some(ResultsOf(o[1],
                            {s \in RealSymbols : provider[s] = "score9"}))]
    /\ lp = LpIdle /\ hist = <<>> /\ calc = NoCalc /\ http = NoHttp
    /\ seen = <<>> /\ tg = NoTg /\ ep = NoEp /\ tier = TiersUp
    /\ ExtIdle

RaceInit == RaceStore /\ inv = [p \in Invocations |-> IdleInvocation]

\* The next trigger, once both invocations have returned: from then on the
\* invocations run one after the other.
Restart(p) ==
    /\ BothReturned
    /\ inv' = [inv EXCEPT ![p] = IdleInvocation]
    /\ UNCHANGED <<kv, sent>> /\ ConcFrame

RaceNext == ConcNext \/ \E p \in Invocations : Restart(p)

\* Two overlapping invocations, then further ones until the pass completes.
RaceSpec == RaceInit /\ [][RaceNext]_vars

NoRepeats(seq) ==
    \A i, j \in 1..Len(seq) : seq[i] = seq[j] => i = j

\* C33 as stated: however two overlapping invocations interleave, and with
\* further invocations until completion, no symbol is twice in the persisted
\* scan_results and the final report names every symbol that qualified.
C33_Original ==
    /\ NoRepeats(Symbols(PersistedResults))
    /\ sent # <<>> =>
           \A i \in 1..Len(Qualifying) :
               /\ sent[Len(sent)].kind = "scan_complete"
               /\ \E j \in 1..Len(sent[Len(sent)].listed) :
                      sent[Len(sent)].listed[j] = Qualifying[i]

\* C34 as stated: at most one end-of-cycle report is sent per pass, also when
\* two invocations overlap near the end of the universe.
C34_Original == Len(sent) <= 1

\* ------------------------------------------- an invocation that is cut short
\* One invocation at a time: the second one has returned before the first
\* starts.
KillInit ==
    /\ RaceStore
    /\ inv = [p \in Invocations |->
                 IF p = 1 THEN IdleInvocation
                 ELSE [IdleInvocation EXCEPT !.pc = "returned"]]

\* Reports after which no further invocation is cut short.
MaxReports == 2

\* The platform ends the invocation (the 10-second limit of the serverless
\* function) after the loop, before or between the writes of lines 292-293.
Kill(p) ==
    /\ Len(sent) < MaxReports
    /\ inv[p].pc \in {"merged", "offset_written"}
    /\ inv' = [inv EXCEPT ![p].pc = "returned", ![p].status = "killed"]
    /\ UNCHANGED <<kv, sent>> /\ ConcFrame

KillNext == RaceNext \/ \E p \in Invocations : Kill(p)

\* Invocations one after the other, any of which can be cut short.
KillSpec == KillInit /\ [][KillNext]_vars

\* C35 as stated: when an invocation is terminated at any point of its save
\* sequence, the persisted results are still the qualifying symbols below
\* the persisted offset.
C35_Original ==
    BothReturned => Symbols(PersistedResults) = QualifyingBelowOffset

\* ------------------------------------------- the /scanall command (webhook.py)
\* kv_set of webhook.py (lines 357-373) on store st when the store answers
\* the call (up) or not: the store afterwards, and what the call returns.
kv_set_store(up, st, key, value) ==
    IF ~up THEN st ELSE [st EXCEPT ![key] = Some(value)]

kv_set_returns(up) == up

\* "kv_set('scan_offset', 0) and kv_set('scan_results', [])" (line 379): the
\* second call is made only if the first returned True.
ResetScanState(up1, up2) ==
    LET st1 == kv_set_store(up1, kv, "scan_offset", 0)
    IN  IF ~kv_set_returns(up1) THEN [store |-> st1, ok |-> FALSE]
        ELSE [store |-> kv_set_store(up2, st1, "scan_results", <<>>),
              ok    |-> kv_set_returns(up2)]

\* handle_scan_all (lines 376-394): the store answers the first call as
\* redis_up says and may have changed by the second.
handle_scan_all ==
    \E up2 \in BOOLEAN :
        LET reset == ResetScanState(redis_up, up2) IN
        /\ kv' = reset.store
        /\ redis_up' = IF redis_up THEN up2 ELSE redis_up
        /\ cmd' = [reply |-> IF reset.ok THEN "initiated" ELSE "error"]
        /\ UNCHANGED <<yf, provider, now, pass, ret, obs, sent, completed,
                       lp, hist, calc, http, seen, tg, ep, tier, inv, srv,
                       files>>

\* A cron trigger after the command.
ScanAllInvoke ==
    /\ pass < MaxPasses
    /\ \E budget \in 0..MaxBudget : run_batch_scan(budget)
    /\ cmd' = NoCmd
    /\ UNCHANGED <<http, seen, tg, ep, tier, inv, srv, files>>

ScanAllNext == handle_scan_all \/ ScanAllInvoke \/ Tick \/ StoreToggle

\* The webhook's /scanall between the cron triggers.
ScanAllSpec == StoreInit /\ [][ScanAllNext]_vars

\* C36 as stated: after handle_scan_all has reported that a full scan was
\* initiated, the next run_batch_scan starts scanning at index 0 and does not
\* return waiting, whatever last_scan_complete is.
C36_Original ==
    [][\A budget \in 0..MaxBudget :
          (cmd.reply = "initiated" /\ redis_up /\ run_batch_scan(budget)) =>
              /\ StatusOf(ret') # "waiting"
              /\ obs'.offset = 0
      ]_vars

\* C37 as stated: handle_scan_all either resets both keys and reports
\* success, or changes neither key and reports the database error.
C37_Original ==
    [][handle_scan_all =>
          \/ /\ cmd'.reply = "initiated"
             /\ kv'["scan_offset"] = Some(0)
             /\ kv'["scan_results"] = Some(<<>>)
          \/ /\ cmd'.reply = "error"
             /\ kv'["scan_offset"] = kv["scan_offset"]
             /\ kv'["scan_results"] = kv["scan_results"]
      ]_vars

\* --------------------------------- the long-running server (railway_server.py)
\* Scan threads started over the life of the server.
MaxScans == 2

NewThread == [pc |-> "started", stocks |-> <<>>, i |-> 0, results |-> <<>>]

\* The threads that have been started and have not ended.
ActiveThreads == {t \in 1..Len(srv.threads) : srv.threads[t].pc # "ended"}

ServerFrame ==
    UNCHANGED <<kv, redis_up, yf, provider, now, pass, ret, obs, sent,
                completed, lp, hist, calc, http, seen, tg, ep, tier, inv,
                cmd, files>>

\* Thread t makes a step: scan_state becomes state, the thread goes to pc.
ThreadStep(t, pc, state) ==
    /\ srv' = [srv EXCEPT !.scan_state = state, !.threads[t].pc = pc]
    /\ ServerFrame

\* scanall (lines 132-150): a request is answered already_running if the flag
\* is up; otherwise a thread is started and the answer is started.
scanall ==
    /\ IF srv.scan_state.is_scanning
       THEN srv' = [srv EXCEPT !.reply = "already_running"]
       ELSE /\ Len(srv.threads) < MaxScans
            /\ srv' = [srv EXCEPT !.threads = Append(@, NewThread),
                                  !.reply = "started"]
    /\ ServerFrame

\* run_full_scan, statement by statement (lines 153-188).
\* "scan_state['is_scanning'] = True" (line 158).
SetScanning(t) ==
    /\ srv.threads[t].pc = "started"
    /\ ThreadStep(t, "flagged",
                  [srv.scan_state EXCEPT !.is_scanning = TRUE])

\* "scan_state['status'] = 'scanning'" and "scan_state['results'] = []"
\* (lines 159-160).
SetStatusScanning(t) ==
    /\ srv.threads[t].pc = "flagged"
    /\ ThreadStep(t, "cleared",
                  [srv.scan_state EXCEPT !.status = "scanning",
                                         !.results = <<>>])

\* "stocks = get_nse_stock_list()" and "scan_state['total'] = len(stocks)"
\* (lines 163-164).
LoadStocks(t) ==
    /\ srv.threads[t].pc = "cleared"
    /\ srv' = [srv EXCEPT !.scan_state.total = Len(MidList),
                          !.threads[t].pc = "total_set",
                          !.threads[t].stocks = MidList]
    /\ ServerFrame

\* get_nse_stock_list raises: control goes to the finally clause.
LoadStocksRaises(t) ==
    /\ srv.threads[t].pc = "cleared"
    /\ ThreadStep(t, "finally", srv.scan_state)

\* "scan_state['progress'] = 0" (line 165).
ResetProgress(t) ==
    /\ srv.threads[t].pc = "total_set"
    /\ ThreadStep(t, "loop", [srv.scan_state EXCEPT !.progress = 0])

\* One iteration of the for loop (lines 169-181): the symbol passes the
\* screener or it does not (an exception of the screener is swallowed).
ScanSymbol(t) ==
    LET th == srv.threads[t] IN
    /\ th.pc = "loop"
    /\ th.i < Len(th.stocks)
    /\ \E passes \in BOOLEAN :
           srv' = [srv EXCEPT
                      !.scan_state.progress = th.i + 1,
                      !.threads[t].i = th.i + 1,
                      !.threads[t].results =
                          IF passes THEN Append(@, th.stocks[th.i + 1])
                          ELSE @]
    /\ ServerFrame

\* "scan_state['results'] = results", "scan_state['status'] = 'complete'" and
\* "scan_state['last_scan'] = ..." (lines 183-185).
StoreResults(t) ==
    LET th == srv.threads[t] IN
    /\ th.pc = "loop"
    /\ th.i >= Len(th.stocks)
    /\ ThreadStep(t, "finally",
                  [srv.scan_state EXCEPT !.results = th.results,
                                         !.status = "complete",
                                         !.last_scan = Some(now)])

\* "finally: scan_state['is_scanning'] = False" (lines 187-188).
Finally(t) ==
    /\ srv.threads[t].pc = "finally"
    /\ ThreadStep(t, "ended",
                  [srv.scan_state EXCEPT !.is_scanning = FALSE])

run_full_scan(t) ==
    \/ SetScanning(t)
    \/ SetStatusScanning(t)
    \/ LoadStocks(t)
    \/ LoadStocksRaises(t)
    \/ ResetProgress(t)
    \/ ScanSymbol(t)
    \/ StoreResults(t)
    \/ Finally(t)

ServerInit ==
    /\ Quiescent
    /\ provider = [s \in RealSymbols |-> "score9"]
    /\ Idle

ServerNext == scanall \/ \E t \in 1..Len(srv.threads) : run_full_scan(t)

\* /api/scanall requests and the scan threads they start.
ServerSpec == ServerInit /\ [][ServerNext]_vars

\* C38 as stated: at most one run_full_scan thread is active at any time.
C38_Original == Cardinality(ActiveThreads) <= 1

\* C39 as stated: status is 'scanning' exactly when is_scanning is true,
\* progress never exceeds total, and once run_full_scan has ended for any
\* reason is_scanning is false and status is not 'scanning'.
C39_Original ==
    /\ srv.scan_state.status = "scanning" <=> srv.scan_state.is_scanning
    /\ srv.scan_state.progress <= srv.scan_state.total
    /\ (srv.threads # <<>> /\ ActiveThreads = {}) =>
           /\ ~srv.scan_state.is_scanning
           /\ srv.scan_state.status # "scanning"


\* ---------------------------------------------------------------------------
\* The results file of the polling bot (bot.py lines 21-80).
\* ---------------------------------------------------------------------------
\* Largest number of qualifying stocks in one saved scan.
MaxFiles == 2

\* The scan types the bot saves and loads: save_scan_results('scanall', ...)
\* (line 189), save_scan_results('fullscan', ...) (line 366).
ScanTypes == {"scanall", "fullscan"}

\* "total_scanned": len(all_stocks) for /scanall, len(stocks) for /fullscan.
TotalScanned(scan_type) == IF scan_type = "scanall" THEN 5 ELSE 3

\* Results of the screener, best first; the second one has no name attribute.
FoundResults ==
    << [symbol |-> "TCS", name |-> "Tata Consultancy", current_price |-> 120,
        score |-> 9, passes_all |-> TRUE],
       [symbol |-> "INFY", current_price |-> 90, score |-> 9,
        passes_all |-> TRUE],
       [symbol |-> "RELIANCE", name |-> "Reliance", current_price |-> 75,
        score |-> 9, passes_all |-> TRUE] >>

ScanResultLists == {SubSeq(FoundResults, 1, n) : n \in 0..MaxFiles}

\* Lines 38-48: one serializable dict per result, "r.name if hasattr(r, 'name')
\* else ''".
results_data(results) ==
    [i \in 1..Len(results) |->
        [symbol        |-> results[i].symbol,
         name          |-> IF "name" \in DOMAIN results[i]
                           THEN results[i].name ELSE "",
         current_price |-> results[i].current_price,
         score         |-> results[i].score,
         passes_all    |-> results[i].passes_all]]

\* Lines 51-56: the entry stored for one scan type.
ScanEntry(results, total_scanned, timestamp) ==
    [timestamp        |-> timestamp,
     total_scanned    |-> total_scanned,
     qualifying_count |-> Len(results),
     results          |-> results_data(results)]

\* json.load of the file: raises when the text is not JSON.
json_load_raises == files.state = "corrupt"

\* Variant: the existing file is not read.
ExistingData_Empty == <<>>

\* Lines 29-35: "data = {}", replaced by the content of the file when it
\* exists and parses; "except: data = {}".
ExistingData ==
    IF files.state = "absent" THEN <<>>
    ELSE IF json_load_raises THEN <<>>
    ELSE files.data

\* dict assignment "data[key] = value".
SetItem(data, key, value) ==
    [k \in DOMAIN data \cup {key} |-> IF k = key THEN value ELSE data[k]]

FileFrame ==
    UNCHANGED <<kv, redis_up, yf, provider, pass, ret, obs, sent,
                completed, lp, hist, calc, http, seen, tg, ep, tier, inv,
                cmd, srv>>

\* save_scan_results (lines 24-63): read the file, set data[scan_type], write
\* the whole dict back, return True.
save_scan_results(scan_type, results, total_scanned) ==
    /\ files' = [state    |-> "json",
                 data     |-> SetItem(ExistingData, scan_type,
                                      ScanEntry(results, total_scanned, now)),
                 call     |-> [op |-> "save", scan_type |-> scan_type],
                 returned |-> [kind |-> "True"]]
    /\ UNCHANGED now
    /\ FileFrame

\* load_scan_results (lines 66-80). scan_type is None (the default), or
\* Some(type); "if scan_type:" is false for None and for ''.
load_scan_results(scan_type) ==
    /\ files' =
        [files EXCEPT
            !.call = [op |-> "load", scan_type |-> scan_type],
            !.returned =
                IF files.state = "absent" THEN [kind |-> "None"]
                ELSE IF json_load_raises THEN [kind |-> "None"]
                ELSE IF scan_type # None /\ scan_type # Some("")
                THEN IF scan_type[1] \in DOMAIN files.data
                     THEN [kind |-> "entry", value |-> files.data[scan_type[1]]]
                     ELSE [kind |-> "None"]
                ELSE [kind |-> "all", value |-> files.data]]
    /\ UNCHANGED now
    /\ FileFrame

\* The environment: the data directory is wiped (a new deployment), or the
\* file is left truncated by a write that was cut short.
FileChange ==
    /\ files.state = "json"
    /\ \E state \in {"absent", "corrupt"} :
        files' = [state |-> state, data |-> <<>>,
                  call |-> [op |-> "none"], returned |-> [kind |-> "None"]]
    /\ UNCHANGED now
    /\ FileFrame



FileInit ==
    /\ Quiescent
    /\ provider = [s \in RealSymbols |-> "score9"]
    /\ Idle

FileNext ==
    \/ \E scan_type \in ScanTypes, results \in ScanResultLists :
        save_scan_results(scan_type, results, TotalScanned(scan_type))
    \/ \E scan_type \in {None} \cup {Some(t) : t \in ScanTypes} :
        load_scan_results(scan_type)
    \/ FileChange
    \/ Tick

FileSpec == FileInit /\ [][FileNext]_vars

\* A step that is a call of save_scan_results (the clock leaves files alone).
Saves == files' # files /\ files'.call.op = "save"

LoadsSaved ==
    /\ files.call.op = "save"
    /\ files'.call = [op |-> "load", scan_type |-> Some(files.call.scan_type)]

\* C40: save_scan_results(scan_type, ...) replaces only the entry of scan_type
\* in the results file and leaves the stored entry of every other scan type
\* as it was, and a load_scan_results(scan_type) that follows returns the
\* entry just saved.
C40_SaveFrame ==
    [][ /\ Saves =>
            /\ files'.state = "json"
            /\ files'.call.scan_type \in DOMAIN files'.data
            /\ files'.data[files'.call.scan_type].timestamp = now
            /\ files'.data[files'.call.scan_type].total_scanned
                   = TotalScanned(files'.call.scan_type)
            /\ files'.data[files'.call.scan_type].qualifying_count
                   = Len(files'.data[files'.call.scan_type].results)
            /\ files.state = "json" =>
                 /\ DOMAIN files'.data
                        = DOMAIN files.data \cup {files'.call.scan_type}
                 /\ \A t \in DOMAIN files.data \ {files'.call.scan_type} :
                        files'.data[t] = files.data[t]
        /\ LoadsSaved =>
            files'.returned =
                [kind |-> "entry", value |-> files.data[files.call.scan_type]]
      ]_vars

\* A save of one scan type over a file that holds an older entry of the same
\* type and an entry of the other type has happened, and the entry of the
\* saved type was then loaded.
C40_Witness ==
    /\ files.call = [op |-> "load", scan_type |-> Some("scanall")]
    /\ files.returned.kind = "entry"
    /\ files.returned.value.timestamp = 2
    /\ files.returned.value.qualifying_count = 2
    /\ DOMAIN files.data = ScanTypes
    /\ files.data["fullscan"].timestamp = 1
    /\ files.data["fullscan"].qualifying_count = 1

=============================================================================
